------------------------------ MODULE Accounts ------------------------------
(***************************************************************************)
(* Accounts and what they mark as their own, as people meet them through the *)
(* REST gateway: services/gateway/srv/user_service.go and the bookmark       *)
(* handlers of interaction_service.go, behind the middleware of pkg/auth;    *)
(* services/user/service.go and repo.go; the bookmarks of                    *)
(* services/interaction.                                                     *)
(*                                                                           *)
(* A person makes one call after the other.  The middleware reads the        *)
(* account from the token, and nothing later looks whether that account still *)
(* exists: a call is its token's account and, some time later, one SQL       *)
(* statement.  A person who gives up waiting moves on, and the statement of   *)
(* the abandoned call may still run.                                         *)
(***************************************************************************)
EXTENDS Integers, FiniteSets, Functions

CONSTANTS
    Persons,        \* people, each with a password nobody else knows
    Names,          \* user names
    Ids,            \* account ids, in the order they are given out; never reused
    Posts,          \* post ids
    MaxCalls,       \* bound: calls a person makes
    MaxAway,        \* bound: abandoned calls at a time
    None            \* no name, no person, no account

ASSUME IdsAssumption == Ids \subseteq Nat /\ Ids \cap Posts = {}
ASSUME NoneAssumption == None \notin Persons \cup Names \cup Ids
ASSUME BoundsAssumption == {MaxCalls, MaxAway} \subseteq Nat

VARIABLES
    users,          \* ids with a row in "user".users
    name,           \* users.username, kept when the row is gone
    owner,          \* who registered the account: users.password is his
    follows,        \* "user".follows: pairs <<follower_id, followed_id>>
    marks,          \* post_bookmarks: pairs <<user_id, post_id>>
    wallet,         \* the valid tokens a person holds, by their user_id
    call,           \* the current call of a person, or the answer to the last
    away,           \* abandoned calls whose statement may still run
    calls           \* calls a person has made

tables == <<users, name, owner, follows, marks>>
vars == <<tables, wallet, call, away, calls>>

Pairs == Ids \X (Ids \cup Posts)
Writes == {"follow", "unfollow", "bookmark", "unbookmark"}

\* A call: its person, the account of its token, what it is about (a name for
\* "register" and "login", the pairs it writes or reads otherwise), what a read
\* showed.
Call(op, p, id, arg, got) == [op |-> op, who |-> p, by |-> id, arg |-> arg, got |-> got]

NoCall(p) == Call("none", p, None, {}, {})

\* The answer to a call about the pairs S: these are in the table.
Answer(c, S) == Call("answer", c.who, c.by, c.arg, S)

Init ==
    /\ users = {} /\ follows = {} /\ marks = {} /\ away = {}
    /\ name = [i \in Ids |-> None]
    /\ owner = [i \in Ids |-> None]
    /\ wallet = [p \in Persons |-> {}]
    /\ call = [p \in Persons |-> NoCall(p)]
    /\ calls = [p \in Persons |-> 0]

------------------------------------------------------------------------------
(* Calls reach a handler *)

\* Calls to the public paths need no token.
Anonymous(p) == {Call(op, p, None, n, {}) : op \in {"register", "login"}, n \in Names}

\* What account i may write.
WritesOf(p, i) ==
    {Call(op, p, i, {<<i, j>>}, {}) : op \in {"follow", "unfollow"}, j \in Ids} \cup
    {Call(op, p, i, {<<i, d>>}, {}) : op \in {"bookmark", "unbookmark"}, d \in Posts}

\* GetFollowing and GetFollowers of anybody, IsFollowing and IsBookmarked of his own.
ReadsOf(p, i) ==
    {Call("read", p, i, S, {}) :
        S \in {{j} \X Ids : j \in Ids} \cup {Ids \X {j} : j \in Ids}
              \cup {{e} : e \in {i} \X (Ids \cup Posts)}}

\* handleUnregister takes the account of the token, whatever id the path names.
UnregisterOf(p, i) == {Call("unregister", p, i, {}, {})}

\* Mutant: the user_id of the path or the body is taken for the caller's.
Unchecked(p) ==
    Anonymous(p) \cup
    UNION {WritesOf(p, i) \cup ReadsOf(p, i) \cup UnregisterOf(p, i) : i \in Ids}

\* Middleware: a call gets the account of a valid token, unless its path is public.
Authorized(p) ==
    Anonymous(p) \cup
    UNION {WritesOf(p, i) \cup ReadsOf(p, i) \cup UnregisterOf(p, i) : i \in wallet[p]}

Begin(p) ==
    /\ call[p].op \in {"none", "answer"}
    /\ calls[p] < MaxCalls
    /\ calls' = [calls EXCEPT ![p] = @ + 1]
    /\ \E c \in Authorized(p) : call' = [call EXCEPT ![p] = c]
    /\ UNCHANGED <<tables, wallet, away>>

\* Three days after Login the token is not valid any more.
Expire(p) ==
    /\ \E i \in wallet[p] : wallet' = [wallet EXCEPT ![p] = @ \ {i}]
    /\ UNCHANGED <<tables, call, away, calls>>

------------------------------------------------------------------------------
(* The SQL statements *)

Free(n) == \A i \in users : name[i] # n

\* INSERT INTO users: the password is hashed long before; the id is fresh.
Register(c) ==
    /\ Free(c.arg)
    /\ \E i \in Ids :
         /\ name[i] = None /\ \A j \in Ids : name[j] = None => i <= j
         /\ users' = users \cup {i}
         /\ name' = [name EXCEPT ![i] = c.arg]
         /\ owner' = [owner EXCEPT ![i] = c.who]
    /\ UNCHANGED <<follows, marks>>

\* Mutant: only the follows of the account itself are deleted.
FollowsLeft(i) == {e \in follows : e[1] # i}

\* The rows that ON DELETE CASCADE leaves when account i goes.
Remaining(i) == {e \in follows : i \notin {e[1], e[2]}}

\* DELETE FROM users, of no row when the account is gone already.
Unregister(c) ==
    /\ users' = users \ {c.by}
    /\ follows' = Remaining(c.by)
    /\ UNCHANGED <<name, owner, marks>>

\* Both columns of follows reference users; ON CONFLICT DO NOTHING.
Follow(c) ==
    /\ \A e \in c.arg : {e[1], e[2]} \subseteq users
    /\ follows' = follows \cup c.arg
    /\ UNCHANGED <<users, name, owner, marks>>

\* Mutant: the two columns of the DELETE are swapped.
UnfollowSwapped(c) ==
    /\ follows' = {e \in follows : <<e[2], e[1]>> \notin c.arg}
    /\ UNCHANGED <<users, name, owner, marks>>

Unfollow(c) ==
    /\ follows' = follows \ c.arg
    /\ UNCHANGED <<users, name, owner, marks>>

\* Bookmarks reference nothing: neither the post nor the account need exist.
Bookmark(c) == marks' = marks \cup c.arg /\ UNCHANGED <<users, name, owner, follows>>

Unbookmark(c) == marks' = marks \ c.arg /\ UNCHANGED <<users, name, owner, follows>>

\* The pairs a SELECT finds.
Found(c) == c.arg \cap (follows \cup marks)

\* The statement of a writing call succeeds.
Execute(c) ==
    \/ c.op = "register" /\ Register(c)
    \/ c.op = "unregister" /\ Unregister(c)
    \/ c.op = "follow" /\ Follow(c)
    \/ c.op = "unfollow" /\ Unfollow(c)
    \/ c.op = "bookmark" /\ Bookmark(c)
    \/ c.op = "unbookmark" /\ Unbookmark(c)

\* What a successful answer to a writing call says of the table.
Said(c) == CASE c.op \in {"follow", "bookmark"} -> c.arg
             [] OTHER -> {}

Write(p) ==
    LET c == call[p]
    IN  /\ Execute(c)
        /\ call' = [call EXCEPT ![p] = IF c.op \in Writes THEN Answer(c, Said(c))
                                                          ELSE NoCall(p)]
        /\ UNCHANGED <<wallet, away, calls>>

Read(p) ==
    /\ call[p].op = "read"
    /\ call' = [call EXCEPT ![p] = Answer(@, Found(@))]
    /\ UNCHANGED <<tables, wallet, away, calls>>

------------------------------------------------------------------------------
(* Login reads the row, compares the password, and signs what it read *)

\* The row of the name, if its password is the caller's.
Match(c) == {i \in users : name[i] = c.arg /\ owner[i] = c.who}

LoginFinds(p) ==
    /\ call[p].op = "login"
    /\ \E i \in Match(call[p]) : call' = [call EXCEPT ![p] = [@ EXCEPT !.op = "sign", !.by = i]]
    /\ UNCHANGED <<tables, wallet, away, calls>>

\* Unknown name or wrong password: Success is FALSE.
LoginRefused(p) ==
    /\ call[p].op = "login"
    /\ Match(call[p]) = {}
    /\ call' = [call EXCEPT ![p] = NoCall(p)]
    /\ UNCHANGED <<tables, wallet, away, calls>>

\* Mutant: the token is made for whoever holds the name by now.
SignByName(p) ==
    /\ call[p].op = "sign"
    /\ \E i \in users : name[i] = call[p].arg /\ wallet' = [wallet EXCEPT ![p] = @ \cup {i}]
    /\ call' = [call EXCEPT ![p] = NoCall(p)]
    /\ UNCHANGED <<tables, away, calls>>

\* The row may be gone by now.
Sign(p) ==
    /\ call[p].op = "sign"
    /\ wallet' = [wallet EXCEPT ![p] = @ \cup {call[p].by}]
    /\ call' = [call EXCEPT ![p] = NoCall(p)]
    /\ UNCHANGED <<tables, away, calls>>

------------------------------------------------------------------------------
(* Failure *)

\* The statement fails, or is refused: 500, and nothing has changed.
Fails(p) ==
    /\ call[p].op \notin {"none", "answer"}
    /\ call' = [call EXCEPT ![p] = NoCall(p)]
    /\ UNCHANGED <<tables, wallet, away, calls>>

\* The person, or the network, gives up before the answer.
GiveUp(p) ==
    /\ call[p].op \in Writes \cup {"register", "unregister"}
    /\ Cardinality(away) < MaxAway
    /\ away' = away \cup {call[p]}
    /\ call' = [call EXCEPT ![p] = NoCall(p)]
    /\ UNCHANGED <<tables, wallet, calls>>

\* What a person was told about a pair is void when a statement about it runs later.
Voided(a, c) ==
    IF a.op = "answer" /\ c.op \in Writes THEN [a EXCEPT !.arg = @ \ c.arg] ELSE a

\* Whose statement runs all the same ...
RunsLate(c) ==
    /\ Execute(c)
    /\ away' = away \ {c}
    /\ call' = [call EXCEPT ![c.who] = Voided(@, c)]
    /\ UNCHANGED <<wallet, calls>>

\* ... or is cancelled with the request.
Cancelled(c) ==
    /\ away' = away \ {c}
    /\ UNCHANGED <<tables, wallet, call, calls>>

Next ==
    \/ \E p \in Persons : \/ Begin(p) \/ Expire(p) \/ Write(p) \/ Read(p)
                          \/ LoginFinds(p) \/ LoginRefused(p) \/ Sign(p)
                          \/ Fails(p) \/ GiveUp(p)
    \/ \E c \in away : RunsLate(c) \/ Cancelled(c)

Spec == Init /\ [][Next]_vars

------------------------------------------------------------------------------
(* Properties *)

\* Values keep their types; whoever acts as an account, or signs a token for it,
\* acts as one that was registered.
TypeOK ==
    /\ users \subseteq Ids
    /\ name \in [Ids -> Names \cup {None}] /\ owner \in [Ids -> Persons \cup {None}]
    /\ follows \subseteq Ids \X Ids /\ marks \subseteq Ids \X Posts
    /\ calls \in [Persons -> 0..MaxCalls]
    /\ \A i \in Ids : (name[i] = None <=> owner[i] = None) /\ (i \in users => name[i] # None)
    /\ \A p \in Persons : \A i \in wallet[p] \cup {call[p].by} : i # None => name[i] # None

\* A follow joins accounts that exist: Follow racing Unregister, from a token that
\* outlives its account, or run late, leaves no row of a deleted account for the
\* fan-out to read (002_create_follows.up.sql).
FollowsAreUsers == \A e \in follows : {e[1], e[2]} \subseteq users

\* Nobody ever acts as an account that somebody else registered, although Login
\* reads, compares and signs in separate steps, rows go meanwhile and a name may
\* be taken over (service.go 43-60, middleware 62-108).
ActsAsOwn ==
    /\ \A p \in Persons : \A i \in wallet[p] : owner[i] = p
    /\ \A c \in away \cup Range(call) : c.by # None => owner[c.by] = c.who

\* What a person was told last about follows or bookmarks of his own account stays
\* so until he asks again, whatever others do: unless one of the accounts is
\* deleted, or the statement of a call he had abandoned ran after it.
AnswerHolds ==
    \A p \in Persons :
      call[p].op = "answer" =>
        \A e \in call[p].arg :
          (owner[e[1]] = p /\ e[1] \in users /\ e[2] \in users \cup Posts) =>
             (e \in call[p].got <=> e \in follows \cup marks)
=============================================================================
