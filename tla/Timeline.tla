------------------------------ MODULE Timeline ------------------------------
(***************************************************************************)
(* GetTimeline of services/feed/service.go: a page mixes a window of the     *)
(* user's inbox with a window of the hot list, one hot post after every      *)
(* fourth from the inbox, and the cursor is a page number.  A reader asks    *)
(* for page after page until has_more is FALSE, while the fan-out worker     *)
(* adds newer posts to the inbox, drops the oldest ones from a full inbox,   *)
(* and the ranking cron replaces the hot list.                               *)
(* Both lists are sequences here, highest score first.  The two are read by   *)
(* separate commands, but changes of one commute with those of the other, so *)
(* a request is one step.  A command that fails is only logged: its list is  *)
(* taken for empty, its post left out.                                       *)
(***************************************************************************)
EXTENDS Integers, Sequences, FiniteSets, Functions

CONSTANTS
    Keep,           \* how many posts the fan-out leaves in an inbox
    MaxInbox,       \* length of the inbox when the reader begins
    HotPosts,       \* posts that may be hot; some may be in the inbox as well
    MaxHot,         \* length of the hot list
    Gone,           \* posts getPostContent does not find
    PageSizes,      \* page_size the reader may ask for
    MaxArrivals,    \* posts that arrive, and hot lists that are replaced, meanwhile
    MaxFaults       \* reads that fail: of each list once, of posts

ASSUME KeepAssumption == Keep \in Nat /\ MaxInbox \in 0..Keep
ASSUME BoundsAssumption == {MaxHot, MaxArrivals, MaxFaults} \subseteq Nat
ASSUME SizesAssumption == PageSizes \subseteq Int
ASSUME IdsAssumption == HotPosts \subseteq Nat \ {0} /\ Gone \subseteq Nat

VARIABLES
    inbox,          \* inbox:<user>, newest first
    hot,            \* hot_posts, hottest first
    pageSize,       \* page_size of the requests
    page,           \* the page the reader asks for next
    more,           \* has_more of the last answer
    last,           \* the ids of the last answer, by their places among the merged
    before,         \* history: the ids of the answers before it
    due,            \* history: the inbox when the reader began
    arrivals,       \* posts that arrived since
    reranks,        \* hot lists that were replaced since
    failed,         \* lists that could not be read once
    unread          \* posts that could not be read once

vars == <<inbox, hot, pageSize, page, more, last, before, due, arrivals, reranks,
          failed, unread>>

InboxRatio == 4

\* page_size outside 1..50 means 20.
Size(n) == IF n <= 0 \/ n > 50 THEN 20 ELSE n

HotPerPage(n) == IF n > InboxRatio THEN n \div (InboxRatio + 1) ELSE 1
InboxPerPage(n) == n - HotPerPage(n)

\* ZREVRANGE of count entries from start; an empty range for count 0.
Window(s, start, count) ==
    SubSeq(s, start + 1, IF start + count < Len(s) THEN start + count ELSE Len(s))

\* Mutant: the inbox window leaves no room for what the hot window does not fill.
ExactWindow(k, n) == Window(inbox, (k - 1) * InboxPerPage(n), InboxPerPage(n))

InboxWindow(k, n) ==
    Window(inbox, (k - 1) * InboxPerPage(n), InboxPerPage(n) + HotPerPage(n))

\* Mutant: the hot window of a page starts one post early.
HotOverlaps(k, n) == Window(hot, (k - 1) * HotPerPage(n) - (IF k = 1 THEN 0 ELSE 1), HotPerPage(n))

HotWindow(k, n) == Window(hot, (k - 1) * HotPerPage(n), HotPerPage(n))

\* While both last, every fifth is a hot post; what is left of the inbox posts follows,
\* then what is left of the hot ones.
Interleaved(in, ht) ==
    LET slot == InboxRatio + 1
        used == IF Len(in) \div InboxRatio < Len(ht) THEN Len(in) \div InboxRatio ELSE Len(ht)
    IN  [j \in 1..Len(in) + Len(ht) |->
           IF j <= used * slot /\ j % slot = 0 THEN ht[j \div slot]
           ELSE IF j <= used * slot THEN in[j - j \div slot]
           ELSE IF j <= Len(in) + used THEN in[j - used]
           ELSE ht[j - Len(in)]]

Merged(in, ht, n) == Window(Interleaved(in, ht), 0, n)

\* Mutant: a post in both lists is not noticed.
NoDedup(s) == s

\* The ids looked up: each where it is first.
Unique(s) == Restrict(s, {i \in DOMAIN s : \A j \in 1..i - 1 : s[j] # s[i]})

\* Mutant: every page promises another.
MoreAlways(merged, n) == TRUE

HasMore(merged, n) == Len(merged) >= n

HotLists == UNION {Injection(1..n, HotPosts) : n \in 0..MaxHot}

Init ==
    /\ \E n \in 0..MaxInbox : inbox = [i \in 1..n |-> i]
    /\ due = inbox
    /\ hot \in HotLists
    /\ pageSize \in {Size(n) : n \in PageSizes}
    /\ page = 1 /\ more = TRUE
    /\ last = <<>> /\ before = {}
    /\ arrivals = 0 /\ reranks = 0 /\ failed = {} /\ unread = {}

\* A post that is not found is left out.  The first cursor is 0, which is page 1;
\* next_cursor is page + 1.
GetTimeline ==
    /\ more
    /\ \E broken \in SUBSET ({"inbox", "hot"} \ failed) :
         LET in == IF "inbox" \in broken THEN <<>> ELSE InboxWindow(page, pageSize)
             ht == IF "hot" \in broken THEN <<>> ELSE HotWindow(page, pageSize)
             merged == Merged(in, ht, pageSize)
             ids == Unique(merged)
         IN  \E skipped \in {{}} \cup {{p} : p \in Range(ids)} :
               /\ failed' = failed \cup broken
               /\ unread' = unread \cup skipped
               /\ Cardinality(failed') + Cardinality(unread') <= MaxFaults
               /\ last' = Restrict(ids, {i \in DOMAIN ids : ids[i] \notin Gone \cup skipped})
               /\ more' = HasMore(merged, pageSize)
    /\ before' = before \cup Range(last)
    /\ page' = page + 1
    /\ UNCHANGED <<inbox, hot, pageSize, due, arrivals, reranks>>

Changed ==
    /\ more /\ arrivals + reranks < MaxArrivals
    /\ UNCHANGED <<pageSize, page, more, last, before, due, failed, unread>>

\* Mutant: the trim keeps one post less.
KeptLess(s) == Window(s, 0, Keep - 1)

\* ZREMRANGEBYRANK inbox:<user> 0 -1001, with Keep for 1000.
Kept(s) == Window(s, 0, Keep)

\* The fan-out of a newer post: the newcomers are 0, -1, ...
Arrive ==
    /\ Changed
    /\ inbox' = Kept(<<-arrivals>> \o inbox)
    /\ arrivals' = arrivals + 1
    /\ UNCHANGED <<hot, reranks>>

Rerank ==
    /\ Changed
    /\ hot' \in HotLists
    /\ reranks' = reranks + 1
    /\ UNCHANGED <<inbox, arrivals>>

\* The reader has seen the end.
Stop == ~more /\ UNCHANGED vars

Next == GetTimeline \/ Arrive \/ Rerank \/ Stop

Spec == Init /\ [][Next]_vars

------------------------------------------------------------------------------
(* Properties *)

Shown == before \cup Range(last)

\* Values keep their types; an answer is no longer than page_size and repeats
\* no post (service.go 183-196).
TypeOK ==
    /\ inbox \in Seq(Int) /\ Len(inbox) <= Keep /\ due \in Seq(Nat) /\ hot \in Seq(HotPosts)
    /\ page \in Nat /\ more \in BOOLEAN
    /\ pageSize \in 1..50 /\ arrivals \in 0..MaxArrivals /\ reranks \in 0..MaxArrivals
    /\ before \subseteq Int
    /\ failed \subseteq {"inbox", "hot"} /\ unread \subseteq Int
    /\ last \in [DOMAIN last -> Int] /\ IsInjective(last)
    /\ DOMAIN last \subseteq 1..pageSize

\* A reader who is told that there is no more has been given every post that was
\* in the inbox when it began, but for those that are gone or could not be read and
\* for the oldest of a full inbox, as many as the posts that arrived had no room
\* for (fanout.py 31-32): other posts move to later pages and are given there, hot
\* posts never take the place of an inbox post, and pages whose hot posts could not
\* be read skip none.  A window of the inbox that cannot be read is not told from
\* its end (service.go 172).
InboxComplete ==
    ~more /\ "inbox" \notin failed =>
      \A i \in 1..Len(due) :
        i + arrivals <= Keep => due[i] \in Shown \cup Gone \cup unread

\* service.go:145 "Cursor doubles as page number": the pages come to an end, for each
\* page but the last uses up InboxPerPage posts of the inbox.  With page_size 1 they
\* do not: that is none, for the hot post takes the one place, and yet the window of
\* the inbox comes first (service.go 157-161).
PagesEnd == more => (page - 1) * InboxPerPage(pageSize) <= Len(inbox)

\* While both lists last, and share no post, a page has HotPerPage hot posts, the
\* ratio of service.go:14 "4 inbox posts -> 1 hot post", and what it shows was on
\* no page before, as long as no read failed.  Not so for pages of less than five posts: the inbox window
\* alone, longer by HotPerPage for posts lost as duplicates, fills them.
Full(k) ==
    /\ pageSize > InboxRatio
    /\ k * pageSize <= Len(inbox) /\ k * HotPerPage(pageSize) <= Len(hot)
    /\ Range(hot) \cap (Range(due) \cup Gone) = {} /\ arrivals = 0 /\ reranks = 0
    /\ failed = {} /\ unread = {}

SlotRatio ==
    page > 1 /\ Full(page - 1) =>
      /\ Cardinality({i \in DOMAIN last : last[i] \in Range(hot)}) = HotPerPage(pageSize)
      /\ Range(last) \cap before = {}
=============================================================================
