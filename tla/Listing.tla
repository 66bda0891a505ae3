------------------------------- MODULE Listing -------------------------------
(***************************************************************************)
(* The two lists that are paged with LIMIT and OFFSET: the comments of a      *)
(* post (services/interaction/repo.go and service.go) and GET /feeds, the     *)
(* posts of one author or of all (services/feed/repo.go and service.go).      *)
(*                                                                           *)
(* Both are a table whose rows are stamped by the database, become visible    *)
(* when their INSERT commits and are deleted by their user only.  A page is   *)
(* two statements: a COUNT, then the rows from newest to oldest.              *)
(***************************************************************************)
EXTENDS Integers, FiniteSets

CONSTANTS
    Rows,           \* row ids (uuids: their order means nothing)
    Keys,           \* what is listed: posts with comments, authors with posts
    Asked,          \* the page sizes readers ask for
    MaxSize,        \* the largest page size (50 in the code)
    DefaultSize,    \* the size of a page asked for with a bad size (20)
    MaxTime,        \* bound on the clock
    None            \* no key; a filter that lets every row pass

ASSUME RowsAssumption == IsFiniteSet(Rows) /\ None \notin Keys
ASSUME SizesAssumption ==
    /\ {MaxSize, DefaultSize} \subseteq Nat \ {0} /\ DefaultSize <= MaxSize
    /\ Asked \subseteq Nat /\ MaxTime \in Nat

VARIABLES
    now,            \* the database's clock
    row,            \* a row is new, stamped, live or gone
    at,             \* created_at
    key,            \* post_id of a comment, author_id of a post
    pc,             \* where the reader's request is
    filter,         \* the key the reader asks for
    size,           \* the page size it gets
    byTotal,        \* it stops when page * size reaches total, not at an empty page
    page,           \* the page it asks for
    total,          \* the COUNT of the current page
    got,            \* how often it was given each row
    base,           \* history: the rows that were there when it started
    deleted,        \* history: rows of its list deleted since
    added,          \* history: rows of its list added since ...
    between         \* history: ... of which between a COUNT and its SELECT

table == <<row, at, key>>
walk == <<pc, filter, size, byTotal, page, total, got, base>>
history == <<deleted, added, between>>
vars == <<now, table, walk, history>>

\* WHERE post_id = $1, WHERE author_id = $1, or no WHERE.
Due(r) == filter = None \/ key[r] = filter

Matching == {r \in Rows : row[r] = "live" /\ Due(r)}

\* Outside 1..50 a page size is replaced by the default.
PageSize(s) == IF s = 0 \/ s > MaxSize THEN DefaultSize ELSE s

Init ==
    /\ now = 0
    /\ row = [r \in Rows |-> "new"]
    /\ at = [r \in Rows |-> 0]
    /\ key = [r \in Rows |-> None]
    /\ pc = "off" /\ filter = None /\ size = 0 /\ byTotal = FALSE
    /\ page = 0 /\ total = 0
    /\ got = [r \in Rows |-> 0]
    /\ base = {}
    /\ deleted = 0 /\ added = 0 /\ between = 0

Reading == pc \in {"count", "select"}

Tick ==
    /\ now < MaxTime
    /\ now' = now + 1
    /\ UNCHANGED <<table, walk, history>>

------------------------------------------------------------------------------
(* CreateComment and DeleteComment, PostFeed and DeleteFeed *)

\* created_at DEFAULT now(): the time the transaction of the INSERT starts.
Insert(r, k) ==
    /\ row[r] = "new"
    /\ row' = [row EXCEPT ![r] = "stamped"]
    /\ at' = [at EXCEPT ![r] = now]
    /\ key' = [key EXCEPT ![r] = k]
    /\ UNCHANGED <<now, walk, history>>

Commit(r) ==
    /\ row[r] = "stamped"
    /\ row' = [row EXCEPT ![r] = "live"]
    /\ added' = IF Reading /\ Due(r) THEN added + 1 ELSE added
    /\ between' = IF pc = "select" /\ Due(r) THEN between + 1 ELSE between
    /\ UNCHANGED <<now, at, key, walk, deleted>>

\* The INSERT fails, or its call is cancelled.
Abort(r) ==
    /\ row[r] = "stamped"
    /\ row' = [row EXCEPT ![r] = "gone"]
    /\ UNCHANGED <<now, at, key, walk, history>>

\* Mutant: no rows affected is taken for success.
DeleteUnchecked(r) ==
    /\ row' = [row EXCEPT ![r] = "gone"]
    /\ deleted' = IF Reading /\ Due(r) THEN deleted + 1 ELSE deleted
    /\ UNCHANGED <<now, at, key, walk, added, between>>

\* DELETE ... WHERE id = $1 AND user_id = $2, by its user: of a row that is gone or
\* another user's it deletes nothing and answers an error.
Delete(r) ==
    /\ row[r] = "live"
    /\ row' = [row EXCEPT ![r] = "gone"]
    /\ deleted' = IF Reading /\ Due(r) THEN deleted + 1 ELSE deleted
    /\ UNCHANGED <<now, at, key, walk, added, between>>

------------------------------------------------------------------------------
(* ListComments and ListFeeds, page after page *)

Start ==
    /\ pc = "off"
    /\ pc' = "count" /\ page' = 1
    /\ filter' \in Keys \cup {None}
    /\ \E s \in Asked : size' = PageSize(s)
    /\ byTotal' \in BOOLEAN
    /\ base' = {r \in Rows : row[r] = "live" /\ (filter' = None \/ key[r] = filter')}
    /\ UNCHANGED <<now, table, total, got, history>>

Count ==
    /\ pc = "count"
    /\ pc' = "select"
    /\ total' = Cardinality(Matching)
    /\ UNCHANGED <<now, table, filter, size, byTotal, page, got, base, history>>

\* Mutant: pages are counted from zero.
OffsetFromZero == page * size

\* Mutant: OFFSET is the number of the page.
OffsetInPages == page - 1

Offset == (page - 1) * size

\* The first n rows of ORDER BY created_at DESC, in every order of equal stamps.
Firsts(n) ==
    {S \in SUBSET Matching :
        /\ Cardinality(S) = (IF n < Cardinality(Matching) THEN n ELSE Cardinality(Matching))
        /\ \A r \in S, q \in Matching \ S : at[r] >= at[q]}

\* ORDER BY ... LIMIT size OFFSET Offset
Page ==
    {items \in SUBSET Matching :
        \E S \in Firsts(Offset), T \in Firsts(Offset + size) : S \subseteq T /\ items = T \ S}

Last(items) == IF byTotal THEN page * size >= total ELSE items = {}

Select ==
    /\ pc = "select"
    /\ \E items \in Page :
         /\ got' = [r \in Rows |-> IF r \in items THEN got[r] + 1 ELSE got[r]]
         /\ pc' = IF Last(items) THEN "done" ELSE "count"
    /\ page' = page + 1
    /\ UNCHANGED <<now, table, filter, size, byTotal, total, base, history>>

Next ==
    \/ Tick
    \/ \E r \in Rows :
         \/ \E k \in Keys : Insert(r, k)
         \/ Commit(r) \/ Abort(r) \/ Delete(r)
    \/ Start \/ Count \/ Select

Spec == Init /\ [][Next]_vars

------------------------------------------------------------------------------
(* Properties *)

\* Values keep their types; only a row that was inserted is stamped, live or gone.
TypeOK ==
    /\ now \in 0..MaxTime
    /\ row \in [Rows -> {"new", "stamped", "live", "gone"}]
    /\ at \in [Rows -> 0..MaxTime]
    /\ \A r \in Rows : row[r] = "new" \/ key[r] \in Keys
    /\ pc \in {"off", "count", "select", "done"}
    /\ filter \in Keys \cup {None}
    /\ size \in 0..MaxSize /\ {page, total} \subseteq Nat
    /\ got \in [Rows -> Nat]
    /\ base \subseteq Rows
    /\ {deleted, added, between} \subseteq Nat

\* Rows whose created_at another row of the list shares: the order has no tie-break.
Tied == {r \in Rows : Due(r) /\ \E q \in Rows \ {r} : Due(q) /\ row[q] # "new"
                                                      /\ row[r] # "new" /\ at[r] = at[q]}

Missed == {r \in base \cap Matching : got[r] = 0}

\* Reading page after page loses no more of the rows that stay than were deleted
\* meanwhile or share their stamp: what else happens, an INSERT that commits late
\* included, moves rows back only.  A reader who stops at total loses one more for
\* each row added between the COUNT and the SELECT of a page (feed/repo.go:61).
MissBounded ==
    pc = "done" =>
      Cardinality(Missed) <= deleted + Cardinality(Tied) + IF byTotal THEN between ELSE 0

\* What the reader was given again: each row with the numbers of its copies but one.
Repeats == UNION {{r} \X (2..got[r]) : r \in Rows}

\* Rows come twice only because rows were added in front, or share their stamp.
RepeatsBounded == Cardinality(Repeats) <= added + Cardinality(Tied)
=============================================================================
