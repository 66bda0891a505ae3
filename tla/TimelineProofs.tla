---------------------------- MODULE TimelineProofs ----------------------------
(* What a reader of the timeline gets, for every inbox, hot list, page size and *)
(* number of changes and failed reads.                                          *)
EXTENDS Timeline, FiniteSetTheorems, SequenceTheorems, WellFoundedInduction, TLAPS

Types ==
    /\ TypeOK
    /\ page # 0 /\ hot \in HotLists

\* A post of the first k of the inbox, beyond the windows of the reader's pages.
Ahead(p, k) ==
    \E i \in 1..Len(inbox) :
      inbox[i] = p /\ i <= k /\ i > (page - 1) * InboxPerPage(pageSize)

\* The i-th post of the inbox the reader began with has room and was not given to him.
Owed(i) == i + arrivals <= Keep /\ due[i] \notin Shown \cup Gone \cup unread

OwedAhead == \A i \in 1..Len(due) : Owed(i) => Ahead(due[i], i + arrivals)

\* While the inbox could be read, what the reader is owed lies before him, and has moved
\* down by no more places than posts arrived.
WalkInv ==
    /\ "inbox" \notin failed => OwedAhead
    /\ InboxComplete
    /\ PagesEnd

\* A post of the windows of the pages after a, up to b.
Between(p, a, b) ==
    \/ \E i \in 1..Len(inbox) :
         /\ p = inbox[i]
         /\ a * InboxPerPage(pageSize) < i /\ i <= b * InboxPerPage(pageSize)
    \/ \E i \in 1..Len(hot) :
         /\ p = hot[i]
         /\ a * HotPerPage(pageSize) < i /\ i <= b * HotPerPage(pageSize)

\* As long as nothing changed or failed, an answer has posts of its page's windows only.
SlotInv ==
    /\ IsInjective(due) /\ (arrivals = 0 => inbox = due)
    /\ page = 1 => last = <<>> /\ before = {}
    /\ page > 1 /\ Full(page - 1) =>
         /\ \A p \in Range(last) : Between(p, page - 2, page - 1)
         /\ \A p \in before : Between(p, 0, page - 2)
    /\ SlotRatio

------------------------------------------------------------------------------
(* Pages *)

LEMMA LeastNat ==
  ASSUME NEW S, S \subseteq Nat, S # {}
  PROVE  \E n \in S : \A m \in S : n <= m
  <1>1. PICK n \in S : \A m \in S : ~(<<m, n>> \in OpToRel(<, Nat))
    BY WFMin, NatLessThanWellFounded, Zenon
  <1>2. \A m \in S : ~(m < n)
    BY <1>1 DEF OpToRel
  <1> QED BY <1>2

LEMMA Sizes ==
  ASSUME NEW n \in 1..50
  PROVE  /\ HotPerPage(n) \in 1..n /\ HotPerPage(n) \in Nat /\ InboxPerPage(n) \in Nat
         /\ InboxPerPage(n) + HotPerPage(n) = n
         /\ n > InboxRatio => 5 * HotPerPage(n) <= n /\ n < 5 * HotPerPage(n) + 5
  BY DEF HotPerPage, InboxPerPage, InboxRatio

LEMMA WindowIs ==
  ASSUME NEW s \in Seq(Int), NEW start \in Nat, NEW count \in Nat
  PROVE  /\ Window(s, start, count) \in Seq(Int)
         /\ Len(Window(s, start, count)) \in Nat
         /\ Len(Window(s, start, count)) <= count
         /\ Len(Window(s, start, count)) > 0 => start + Len(Window(s, start, count)) <= Len(s)
         /\ start + count <= Len(s) => Len(Window(s, start, count)) = count
         /\ start + count > Len(s) => start + Len(Window(s, start, count)) >= Len(s)
  <1> DEFINE stop == IF start + count < Len(s) THEN start + count ELSE Len(s)
             w == SubSeq(s, start + 1, stop)
  <1>1. Len(s) \in Nat /\ stop \in Nat /\ stop <= Len(s) /\ \A i \in 1..Len(s) : s[i] \in Int
    OBVIOUS
  <1>2. Window(s, start, count) = w
    BY DEF Window
  <1>3. \A i \in start + 1..stop : s[i] \in Int
    BY <1>1
  <1>4. start + 1 \in Int /\ stop \in Int
    BY <1>1
  <1>5. stop = start + count \/ stop = Len(s)
    OBVIOUS
  <1>6. start + count <= Len(s) => stop = start + count
    BY <1>1
  <1>7. start + count > Len(s) => stop = Len(s)
    BY <1>1
  <1>8. stop <= start + count
    BY <1>1
  <1> HIDE DEF stop
  <1>9. /\ w \in Seq(Int)
        /\ Len(w) = IF start + 1 <= stop THEN stop - (start + 1) + 1 ELSE 0
        /\ \A i \in 1..stop - (start + 1) + 1 : w[i] = s[(start + 1) + i - 1]
    BY <1>3, <1>4, SubSeqProperties
  <1> HIDE DEF w
  <1>10. Len(w) = IF start < stop THEN stop - start ELSE 0
    BY <1>1, <1>9
  <1> QED BY <1>1, <1>2, <1>6, <1>7, <1>8, <1>9, <1>10

\* What a window shows.
LEMMA WindowItems ==
  ASSUME NEW s \in Seq(Int), NEW start \in Nat, NEW count \in Nat
  PROVE  \A i \in 1..Len(Window(s, start, count)) : Window(s, start, count)[i] = s[start + i]
  <1> DEFINE stop == IF start + count < Len(s) THEN start + count ELSE Len(s)
             w == SubSeq(s, start + 1, stop)
  <1>1. stop \in Nat /\ stop <= Len(s) /\ \A i \in 1..Len(s) : s[i] \in Int
    OBVIOUS
  <1>2. Window(s, start, count) = w
    BY DEF Window
  <1> HIDE DEF stop
  <1>3. start + 1 \in Int /\ stop \in Int /\ \A i \in start + 1..stop : s[i] \in Int
    BY <1>1
  <1>4. /\ Len(w) = IF start + 1 <= stop THEN stop - (start + 1) + 1 ELSE 0
        /\ \A i \in 1..stop - (start + 1) + 1 : w[i] = s[(start + 1) + i - 1]
    BY <1>3, SubSeqProperties
  <1> HIDE DEF w
  <1>5. ASSUME NEW i \in 1..Len(w) PROVE w[i] = s[start + i]
    <2>1. i \in 1..stop - (start + 1) + 1 /\ (start + 1) + i - 1 = start + i
      BY <1>1, <1>4
    <2> QED BY <1>4, <2>1
  <1> QED BY <1>2, <1>5

\* How many posts a window shows.
LEMMA WindowLen ==
  ASSUME NEW s \in Seq(Int), NEW start \in Nat, NEW count \in Nat, start + count <= Len(s)
  PROVE  Len(Window(s, start, count)) = count
  BY WindowIs, Zenon

LEMMA WindowType ==
  ASSUME NEW s \in Seq(Int), NEW start \in Nat, NEW count \in Nat
  PROVE  Window(s, start, count) \in Seq(Int) /\ Len(Window(s, start, count)) \in Nat
  BY WindowIs, Zenon

LEMMA InterleavedIs ==
  ASSUME NEW in \in Seq(Int), NEW ht \in Seq(Int)
  PROVE  /\ Interleaved(in, ht) \in Seq(Int)
         /\ Len(Interleaved(in, ht)) = Len(in) + Len(ht)
         /\ \A w \in 1..Len(in) : \E j \in 1..Len(in) + Len(ht) :
              j <= w + Len(ht) /\ Interleaved(in, ht)[j] = in[w]
         /\ 4 * Len(ht) <= Len(in) =>
              \A j \in 1..Len(in) + Len(ht) :
                /\ j <= 5 * Len(ht) /\ j % 5 = 0 =>
                     j \div 5 \in 1..Len(ht) /\ Interleaved(in, ht)[j] = ht[j \div 5]
                /\ j <= 5 * Len(ht) /\ j % 5 # 0 =>
                     \E i \in 1..Len(in) : i <= 4 * Len(ht) /\ Interleaved(in, ht)[j] = in[i]
                /\ j > 5 * Len(ht) => Interleaved(in, ht)[j] = in[j - Len(ht)]
  <1> DEFINE n == Len(in)
             h == Len(ht)
             used == IF n \div 4 < h THEN n \div 4 ELSE h
             m == Interleaved(in, ht)
  <1>1. /\ n \in Nat /\ h \in Nat /\ used \in Nat /\ used <= h /\ 4 * used <= n
        /\ 4 * h <= n => used = h
        /\ \A i \in 1..n : in[i] \in Int
        /\ \A i \in 1..h : ht[i] \in Int
    OBVIOUS
  <1>2. m = [j \in 1..n + h |->
               IF j <= used * 5 /\ j % 5 = 0 THEN ht[j \div 5]
               ELSE IF j <= used * 5 THEN in[j - j \div 5]
               ELSE IF j <= n + used THEN in[j - used]
               ELSE ht[j - n]]
    BY DEF Interleaved, InboxRatio
  <1> HIDE DEF n, h, used, m
  <1>3. ASSUME NEW j \in 1..n + h PROVE m[j] \in Int
    <2>1. CASE j <= used * 5 /\ j % 5 = 0
      <3>1. j \div 5 \in 1..h /\ m[j] = ht[j \div 5]
        BY <1>1, <1>2, <2>1
      <3> QED BY <1>1, <3>1
    <2>2. CASE j <= used * 5 /\ j % 5 # 0
      <3>1. j - j \div 5 \in 1..n /\ m[j] = in[j - j \div 5]
        BY <1>1, <1>2, <2>2
      <3> QED BY <1>1, <3>1
    <2>3. CASE j > used * 5 /\ j <= n + used
      <3>1. j - used \in 1..n /\ m[j] = in[j - used]
        BY <1>1, <1>2, <2>3
      <3> QED BY <1>1, <3>1
    <2>4. CASE j > used * 5 /\ j > n + used
      <3>1. j - n \in 1..h /\ m[j] = ht[j - n]
        BY <1>1, <1>2, <2>4
      <3> QED BY <1>1, <3>1
    <2> QED BY <1>1, <2>1, <2>2, <2>3, <2>4
  <1>4. m \in [1..n + h -> Int]
    BY <1>2, <1>3
  <1>5. m \in Seq(Int) /\ Len(m) = n + h
    <2>1. n + h \in Nat
      BY <1>1
    <2> DEFINE k == n + h
    <2> HIDE DEF k
    <2>2. k \in Nat /\ m \in [1..k -> Int]
      BY <1>4, <2>1 DEF k
    <2>3. m \in Seq(Int) /\ Len(m) = k
      BY <2>2, SeqDef
    <2> QED BY <2>3 DEF k
  <1>6. ASSUME NEW w \in 1..n PROVE \E j \in 1..n + h : j <= w + h /\ m[j] = in[w]
    <2>1. CASE w <= 4 * used
      <3> DEFINE j == w + ((w - 1) \div 4)
      <3>1. /\ j \in 1..n + h /\ j <= w + h /\ j <= used * 5 /\ j % 5 # 0 /\ j - j \div 5 = w
        BY <1>1, <2>1
      <3> HIDE DEF j
      <3>2. m[j] = in[w]
        BY <1>2, <3>1
      <3> QED BY <3>1, <3>2
    <2>2. CASE w > 4 * used
      <3>1. w + used \in 1..n + h /\ w + used > used * 5 /\ w + used <= n + used
            /\ (w + used) - used = w /\ w + used <= w + h
        BY <1>1, <2>2
      <3> DEFINE j == w + used
      <3>2. j \in 1..n + h /\ j > used * 5 /\ j <= n + used /\ j - used = w
        BY <3>1
      <3> HIDE DEF j
      <3>3. m[j] = in[j - used]
        BY <1>1, <1>2, <3>2
      <3>4. m[j] = in[w]
        BY <3>2, <3>3
      <3> QED BY <3>1, <3>2, <3>4 DEF j
    <2> QED BY <1>1, <2>1, <2>2
  <1>7. ASSUME 4 * h <= n, NEW j \in 1..n + h
        PROVE  /\ j <= 5 * h /\ j % 5 = 0 => j \div 5 \in 1..h /\ m[j] = ht[j \div 5]
               /\ j <= 5 * h /\ j % 5 # 0 => \E i \in 1..n : i <= 4 * h /\ m[j] = in[i]
               /\ j > 5 * h => m[j] = in[j - h]
    <2>1. used = h
      BY <1>1, <1>7
    <2>2. CASE j <= 5 * h /\ j % 5 = 0
      <3>1. j \div 5 \in 1..h /\ m[j] = ht[j \div 5]
        BY <1>1, <1>2, <2>1, <2>2
      <3> QED BY <1>1, <2>2, <3>1
    <2>3. CASE j <= 5 * h /\ j % 5 # 0
      <3>1. j - j \div 5 \in 1..n /\ j - j \div 5 <= 4 * h /\ m[j] = in[j - j \div 5]
        BY <1>1, <1>2, <1>7, <2>1, <2>3
      <3> QED BY <1>1, <2>3, <3>1
    <2>4. CASE j > 5 * h
      <3>1. m[j] = in[j - h]
        BY <1>1, <1>2, <2>1, <2>4
      <3> QED BY <1>1, <2>4, <3>1
    <2> QED BY <1>1, <2>2, <2>3, <2>4
  <1> QED BY <1>5, <1>6, <1>7 DEF n, h, m

LEMMA FirstOf ==
  ASSUME NEW s \in Seq(Int), NEW n \in Nat
  PROVE  /\ Window(s, 0, n) \in Seq(Int)
         /\ Len(Window(s, 0, n)) = IF n < Len(s) THEN n ELSE Len(s)
         /\ \A i \in 1..Len(Window(s, 0, n)) : Window(s, 0, n)[i] = s[i]
  <1> DEFINE stop == IF n < Len(s) THEN n ELSE Len(s)
             w == SubSeq(s, 1, stop)
  <1>1. Len(s) \in Nat /\ stop \in Nat /\ stop <= Len(s) /\ \A i \in 1..Len(s) : s[i] \in Int
    OBVIOUS
  <1>2. Window(s, 0, n) = w
    BY DEF Window
  <1>3. \A i \in 1..stop : s[i] \in Int
    BY <1>1
  <1> HIDE DEF stop
  <1>4. /\ w \in Seq(Int)
        /\ Len(w) = IF 1 <= stop THEN stop - 1 + 1 ELSE 0
        /\ \A i \in 1..stop - 1 + 1 : w[i] = s[1 + i - 1]
    BY <1>1, <1>3, SubSeqProperties
  <1> HIDE DEF w
  <1>5. Len(w) = stop
    BY <1>1, <1>4
  <1>6. ASSUME NEW i \in 1..Len(w) PROVE w[i] = s[i]
    <2>1. i \in 1..stop - 1 + 1 /\ 1 + i - 1 = i
      BY <1>1, <1>5
    <2> QED BY <1>4, <2>1
  <1> QED BY <1>2, <1>4, <1>5, <1>6 DEF stop

LEMMA MergedIs ==
  ASSUME NEW in \in Seq(Int), NEW ht \in Seq(Int), NEW n \in Nat
  PROVE  /\ Merged(in, ht, n) \in Seq(Int)
         /\ Len(Merged(in, ht, n)) = IF n < Len(in) + Len(ht) THEN n ELSE Len(in) + Len(ht)
         /\ \A j \in 1..Len(Merged(in, ht, n)) : Merged(in, ht, n)[j] = Interleaved(in, ht)[j]
  <1> DEFINE s == Interleaved(in, ht)
  <1>1. s \in Seq(Int) /\ Len(s) = Len(in) + Len(ht)
    BY InterleavedIs, Zenon
  <1>2. Merged(in, ht, n) = Window(s, 0, n)
    BY DEF Merged
  <1> HIDE DEF s
  <1>3. /\ Window(s, 0, n) \in Seq(Int)
        /\ Len(Window(s, 0, n)) = IF n < Len(s) THEN n ELSE Len(s)
        /\ \A i \in 1..Len(Window(s, 0, n)) : Window(s, 0, n)[i] = s[i]
    BY <1>1, FirstOf, Zenon
  <1>4. Len(Merged(in, ht, n)) = IF n < Len(s) THEN n ELSE Len(s)
    BY <1>2, <1>3, Zenon
  <1>5. Len(Merged(in, ht, n)) = IF n < Len(in) + Len(ht) THEN n ELSE Len(in) + Len(ht)
    BY <1>1, <1>4, Zenon
  <1> QED BY <1>2, <1>3, <1>5 DEF s

\* What is left out of a page was on it already.
LEMMA UniqueIs ==
  ASSUME NEW s \in Seq(Int)
  PROVE  /\ DOMAIN Unique(s) \subseteq 1..Len(s)
         /\ Unique(s) \in [DOMAIN Unique(s) -> Int]
         /\ IsInjective(Unique(s)) /\ Range(Unique(s)) = Range(s)
         /\ \A i \in DOMAIN Unique(s) : Unique(s)[i] = s[i]
         /\ \A i \in 1..Len(s) : (\A j \in 1..i - 1 : s[j] # s[i]) => i \in DOMAIN Unique(s)
  <1> DEFINE P == {i \in DOMAIN s : \A j \in 1..i - 1 : s[j] # s[i]}
             u == Unique(s)
  <1>1. DOMAIN s = 1..Len(s) /\ Len(s) \in Nat /\ \A i \in 1..Len(s) : s[i] \in Int
    OBVIOUS
  <1>2. u = [i \in P |-> s[i]]
    BY DEF Unique, Restrict
  <1>3. P \subseteq 1..Len(s) /\ \A i \in P : \A j \in 1..i - 1 : s[j] # s[i]
    BY <1>1
  <1>4. ASSUME NEW i \in 1..Len(s) PROVE \E j \in P : s[j] = s[i]
    <2> DEFINE Q == {j \in 1..Len(s) : s[j] = s[i]}
    <2>1. PICK j \in Q : \A k \in Q : j <= k
      <3>1. Q \subseteq Nat /\ Q # {}
        BY <1>1
      <3> HIDE DEF Q
      <3> QED BY <3>1, LeastNat
    <2>2. j \in 1..Len(s) /\ s[j] = s[i]
      OBVIOUS
    <2>3. ASSUME NEW k \in 1..j - 1, s[k] = s[j] PROVE FALSE
      <3>1. k \in 1..Len(s) /\ k < j
        BY <1>1, <2>2
      <3>2. k \in Q
        BY <2>2, <2>3, <3>1
      <3>3. j <= k
        BY <2>1, <3>2
      <3> QED BY <1>1, <2>2, <3>1, <3>3
    <2>4. j \in P
      BY <1>1, <2>2, <2>3
    <2> QED BY <2>2, <2>4
  <1>5. \A i \in 1..Len(s) : (\A j \in 1..i - 1 : s[j] # s[i]) => i \in P
    BY <1>1
  <1> HIDE DEF P, u
  <1>6. DOMAIN u = P /\ \A i \in P : u[i] = s[i]
    BY <1>2
  <1>7. u \in [P -> Int]
    BY <1>1, <1>2, <1>3
  <1>8. IsInjective(u)
    <2>1. ASSUME NEW a \in P, NEW b \in P, s[a] = s[b] PROVE a = b
      <3>1. a \in Nat /\ b \in Nat /\ a > 0 /\ b > 0
        BY <1>1, <1>3
      <3>2. ~(a < b)
        BY <1>3, <2>1, <3>1
      <3>3. ~(b < a)
        BY <1>3, <2>1, <3>1
      <3> QED BY <3>1, <3>2, <3>3
    <2> QED BY <1>6, <2>1 DEF IsInjective
  <1>9. Range(u) = Range(s)
    <2>1. ASSUME NEW x \in Range(u) PROVE x \in Range(s)
      BY <1>1, <1>3, <1>6 DEF Range
    <2>2. ASSUME NEW x \in Range(s) PROVE x \in Range(u)
      <3>1. PICK i \in 1..Len(s) : x = s[i]
        BY <1>1 DEF Range
      <3>2. PICK j \in P : s[j] = s[i]
        BY <1>4
      <3> QED BY <1>6, <3>1, <3>2 DEF Range
    <2> QED BY <2>1, <2>2
  <1> QED BY <1>3, <1>5, <1>6, <1>7, <1>8, <1>9 DEF u

------------------------------------------------------------------------------
(* Types *)

LEMMA HotListIs ==
  ASSUME NEW s \in HotLists
  PROVE  s \in Seq(HotPosts) /\ s \in Seq(Int) /\ IsInjective(s) /\ Len(s) \in Nat
         /\ \A i \in 1..Len(s) : s[i] \in HotPosts /\ s[i] \in Int
  <1>1. HotPosts \subseteq Int /\ MaxHot \in Nat
    BY IdsAssumption, BoundsAssumption
  <1>2. PICK n \in 0..MaxHot : s \in Injection(1..n, HotPosts)
    BY DEF HotLists
  <1>3. n \in Nat /\ s \in [1..n -> HotPosts] /\ IsInjective(s)
    BY <1>1, <1>2 DEF Injection
  <1>4. s \in Seq(HotPosts)
    BY <1>3, SeqDef
  <1>5. \A i \in 1..n : s[i] \in HotPosts /\ s[i] \in Int
    BY <1>1, <1>3
  <1>6. s \in [1..n -> Int]
    BY <1>3, <1>5
  <1>7. s \in Seq(Int)
    BY <1>3, <1>6, SeqDef
  <1>8. Len(s) = n
    BY <1>3, <1>7
  <1> QED BY <1>3, <1>4, <1>5, <1>7, <1>8

\* What a request reads, and what it makes of it.
LEMMA PageIs ==
  ASSUME Types, NEW in, NEW ht,
         in = <<>> \/ in = InboxWindow(page, pageSize), ht = <<>> \/ ht = HotWindow(page, pageSize)
  PROVE  /\ in \in Seq(Int) /\ ht \in Seq(Int) /\ Len(in) <= pageSize
         /\ Len(ht) <= HotPerPage(pageSize)
         /\ Merged(in, ht, pageSize) \in Seq(Int) /\ Len(Merged(in, ht, pageSize)) <= pageSize
  <1>1. /\ pageSize \in 1..50 /\ page \in Nat \ {0} /\ inbox \in Seq(Int) /\ hot \in Seq(Int)
    BY HotListIs DEF Types, TypeOK
  <1>2. /\ HotPerPage(pageSize) \in 1..pageSize /\ InboxPerPage(pageSize) \in Nat
        /\ InboxPerPage(pageSize) + HotPerPage(pageSize) = pageSize
    BY <1>1, Sizes
  <1>3. (page - 1) * InboxPerPage(pageSize) \in Nat /\ (page - 1) * HotPerPage(pageSize) \in Nat
    <2>1. \A a, b \in Nat : a * b \in Nat
      OBVIOUS
    <2>2. page - 1 \in Nat /\ HotPerPage(pageSize) \in Nat
      BY <1>1, <1>2
    <2> QED BY <1>2, <2>1, <2>2
  <1>4. <<>> \in Seq(Int) /\ Len(<<>>) = 0
    OBVIOUS
  <1>5. in \in Seq(Int) /\ Len(in) <= pageSize
    <2>1. CASE in = <<>>
      BY <1>1, <1>4, <2>1
    <2>2. CASE in = InboxWindow(page, pageSize)
      <3>1. /\ InboxWindow(page, pageSize) \in Seq(Int)
            /\ Len(InboxWindow(page, pageSize)) <= pageSize
        <4>1. pageSize \in Nat
          BY <1>1
        <4> QED BY <1>1, <1>2, <1>3, <4>1, WindowIs DEF InboxWindow
      <3> QED BY <2>2, <3>1
    <2> QED BY <2>1, <2>2
  <1>6. ht \in Seq(Int) /\ Len(ht) <= HotPerPage(pageSize)
    <2>1. CASE ht = <<>>
      BY <1>2, <1>4, <2>1
    <2>2. CASE ht = HotWindow(page, pageSize)
      <3>1. HotPerPage(pageSize) \in Nat
        BY <1>2
      <3>2. /\ HotWindow(page, pageSize) \in Seq(Int)
            /\ Len(HotWindow(page, pageSize)) <= HotPerPage(pageSize)
        BY <1>1, <1>3, <3>1, WindowIs DEF HotWindow
      <3> QED BY <2>2, <3>2
    <2> QED BY <2>1, <2>2
  <1>7. Merged(in, ht, pageSize) \in Seq(Int) /\ Len(Merged(in, ht, pageSize)) <= pageSize
    <2>1. pageSize \in Nat /\ Len(in) \in Nat /\ Len(ht) \in Nat
      BY <1>1, <1>5, <1>6
    <2>2. /\ Merged(in, ht, pageSize) \in Seq(Int)
          /\ Len(Merged(in, ht, pageSize)) =
               IF pageSize < Len(in) + Len(ht) THEN pageSize ELSE Len(in) + Len(ht)
      BY <1>5, <1>6, <2>1, MergedIs
    <2> QED BY <2>1, <2>2
  <1> QED BY <1>5, <1>6, <1>7

\* The answer of a request: nothing but posts of the page, each once, and all of them but
\* those that are gone and one that could not be read.
LEMMA AnswerIs ==
  ASSUME Types, GetTimeline
  PROVE  \E in, ht :
           /\ in = <<>> \/ in = InboxWindow(page, pageSize)
           /\ ht = <<>> \/ ht = HotWindow(page, pageSize)
           /\ "inbox" \notin failed' => in = InboxWindow(page, pageSize)
           /\ "hot" \notin failed' => ht = HotWindow(page, pageSize)
           /\ failed \subseteq failed' /\ failed' \subseteq {"inbox", "hot"}
           /\ unread \subseteq unread' /\ unread' \subseteq Int
           /\ more' = HasMore(Merged(in, ht, pageSize), pageSize)
           /\ \A i \in DOMAIN last' :
                /\ i \in 1..Len(Merged(in, ht, pageSize))
                /\ last'[i] = Merged(in, ht, pageSize)[i]
           /\ last' \in [DOMAIN last' -> Int] /\ IsInjective(last')
           /\ \A i \in 1..Len(Merged(in, ht, pageSize)) :
                Merged(in, ht, pageSize)[i] \in Range(last') \cup Gone \cup unread'
           /\ \A i \in 1..Len(Merged(in, ht, pageSize)) :
                /\ \A j \in 1..i - 1 : Merged(in, ht, pageSize)[j] # Merged(in, ht, pageSize)[i]
                /\ Merged(in, ht, pageSize)[i] \notin Gone \cup unread'
                => i \in DOMAIN last'
  <1>1. PICK broken \in SUBSET ({"inbox", "hot"} \ failed) :
         LET in == IF "inbox" \in broken THEN <<>> ELSE InboxWindow(page, pageSize)
             ht == IF "hot" \in broken THEN <<>> ELSE HotWindow(page, pageSize)
             merged == Merged(in, ht, pageSize)
             ids == Unique(merged)
         IN  \E skipped \in {{}} \cup {{p} : p \in Range(ids)} :
               /\ failed' = failed \cup broken
               /\ unread' = unread \cup skipped
               /\ last' = Restrict(ids, {i \in DOMAIN ids : ids[i] \notin Gone \cup skipped})
               /\ more' = HasMore(merged, pageSize)
    BY DEF GetTimeline
  <1> DEFINE in == IF "inbox" \in broken THEN <<>> ELSE InboxWindow(page, pageSize)
             ht == IF "hot" \in broken THEN <<>> ELSE HotWindow(page, pageSize)
             merged == Merged(in, ht, pageSize)
             ids == Unique(merged)
  <1>2. PICK skipped \in {{}} \cup {{p} : p \in Range(ids)} :
               /\ failed' = failed \cup broken
               /\ unread' = unread \cup skipped
               /\ last' = Restrict(ids, {i \in DOMAIN ids : ids[i] \notin Gone \cup skipped})
               /\ more' = HasMore(merged, pageSize)
    BY <1>1
  <1>3. /\ in = <<>> \/ in = InboxWindow(page, pageSize)
        /\ ht = <<>> \/ ht = HotWindow(page, pageSize)
        /\ "inbox" \notin failed' => in = InboxWindow(page, pageSize)
        /\ "hot" \notin failed' => ht = HotWindow(page, pageSize)
    BY <1>2
  <1>4. failed \subseteq failed' /\ failed' \subseteq {"inbox", "hot"} /\ unread \subseteq unread'
    BY <1>2 DEF Types, TypeOK
  <1> HIDE DEF in, ht
  <1>5. merged \in Seq(Int)
    BY <1>3, PageIs
  <1> HIDE DEF merged
  <1>6. /\ DOMAIN ids \subseteq 1..Len(merged)
        /\ ids \in [DOMAIN ids -> Int]
        /\ IsInjective(ids) /\ Range(ids) = Range(merged)
        /\ \A i \in DOMAIN ids : ids[i] = merged[i]
        /\ \A i \in 1..Len(merged) : (\A j \in 1..i - 1 : merged[j] # merged[i]) => i \in DOMAIN ids
    BY <1>5, UniqueIs
  <1> HIDE DEF ids
  <1>7. \A p \in Range(ids) : p \in Int
    BY <1>6 DEF Range
  <1>8. skipped \subseteq Int /\ unread' \subseteq Int /\ skipped \subseteq unread'
    BY <1>2, <1>7 DEF Types, TypeOK
  <1> DEFINE K == {i \in DOMAIN ids : ids[i] \notin Gone \cup skipped}
  <1>9. DOMAIN last' = K /\ \A i \in K : last'[i] = ids[i]
    BY <1>2 DEF Restrict
  <1>10. last' = [i \in K |-> ids[i]]
    BY <1>2 DEF Restrict
  <1>11. last' \in [DOMAIN last' -> Int]
    <2>1. \A i \in K : ids[i] \in Int
      BY <1>6
    <2> HIDE DEF K
    <2> QED BY <1>9, <1>10, <2>1
  <1>12. \A i \in DOMAIN last' : i \in DOMAIN ids /\ last'[i] = ids[i]
    BY <1>9
  <1>13. \A i \in DOMAIN last' : i \in 1..Len(merged) /\ last'[i] = merged[i]
    BY <1>6, <1>12
  <1>14. IsInjective(last')
    BY <1>6, <1>12 DEF IsInjective
  <1>15. \A i \in DOMAIN ids : ids[i] \in Range(last') \cup Gone \cup unread'
    <2>1. \A i \in DOMAIN last' : last'[i] \in Range(last')
      BY DEF Range
    <2> QED BY <1>8, <1>9, <2>1
  <1>16. \A i \in 1..Len(merged) : merged[i] \in Range(last') \cup Gone \cup unread'
    <2>1. ASSUME NEW i \in 1..Len(merged) PROVE \E j \in DOMAIN ids : ids[j] = merged[i]
      <3>1. merged[i] \in Range(ids)
        <4>1. DOMAIN merged = 1..Len(merged)
          BY <1>5
        <4>2. merged[i] \in Range(merged)
          BY <4>1 DEF Range
        <4> QED BY <1>6, <4>2
      <3> QED BY <3>1 DEF Range
    <2> QED BY <1>15, <2>1
  <1>17. \A i \in 1..Len(merged) :
           /\ \A j \in 1..i - 1 : merged[j] # merged[i]
           /\ merged[i] \notin Gone \cup unread'
           => i \in DOMAIN last'
    BY <1>6, <1>8, <1>9
  <1> HIDE DEF K
  <1> QED BY <1>2, <1>3, <1>4, <1>8, <1>11, <1>13, <1>14, <1>16, <1>17 DEF merged

LEMMA InitTypes == Init => Types
  <1> SUFFICES ASSUME Init PROVE Types
    OBVIOUS
  <1>1. PICK n \in 0..MaxInbox : inbox = [i \in 1..n |-> i]
    BY DEF Init
  <1>2. MaxArrivals \in Nat /\ n \in Nat /\ n <= Keep
    BY <1>1, BoundsAssumption, KeepAssumption
  <1>3. inbox \in Seq(Nat) /\ inbox \in Seq(Int) /\ Len(inbox) <= Keep
    <2>1. inbox \in [1..n -> Nat] /\ inbox \in [1..n -> Int]
      BY <1>1, <1>2
    <2>2. inbox \in Seq(Nat) /\ inbox \in Seq(Int)
      BY <1>2, <2>1, SeqDef
    <2>3. Len(inbox) = n
      BY <1>2, <2>1, <2>2
    <2> QED BY <1>2, <2>2, <2>3
  <1>4. hot \in HotLists /\ hot \in Seq(HotPosts)
    BY HotListIs DEF Init
  <1>5. pageSize \in 1..50
    <2>1. PICK k \in PageSizes : pageSize = Size(k)
      BY DEF Init
    <2>2. k \in Int
      BY <2>1, SizesAssumption
    <2> QED BY <2>1, <2>2 DEF Size
  <1>6. last = <<>> /\ DOMAIN last = {} /\ IsInjective(last) /\ last \in [DOMAIN last -> Int]
    BY DEF Init, IsInjective
  <1> QED BY <1>2, <1>3, <1>4, <1>5, <1>6 DEF Init, Types, TypeOK

\* A post that arrives moves the others down by one place, the last of a full inbox out.
LEMMA ArriveIs ==
  ASSUME Types, Arrive
  PROVE  /\ inbox' \in Seq(Int) /\ Len(inbox') <= Keep /\ Len(inbox') >= Len(inbox)
         /\ \A i \in 1..Len(inbox) :
              i + 1 <= Keep => i + 1 \in 1..Len(inbox') /\ inbox'[i + 1] = inbox[i]
  <1> DEFINE new == <<-arrivals>>
             all == new \o inbox
  <1>1. inbox \in Seq(Int) /\ Len(inbox) \in Nat /\ Len(inbox) <= Keep /\ Keep \in Nat
    BY KeepAssumption DEF Types, TypeOK
  <1>2. new \in Seq(Int) /\ Len(new) = 1
    BY DEF Types, TypeOK
  <1>3. inbox' = Window(all, 0, Keep)
    BY DEF Arrive, Kept
  <1> HIDE DEF new
  <1>4. /\ all \in Seq(Int) /\ Len(all) = Len(new) + Len(inbox)
        /\ \A i \in 1..Len(new) + Len(inbox) : all[i] =
              IF i <= Len(new) THEN new[i] ELSE inbox[i - Len(new)]
    BY <1>1, <1>2, ConcatProperties
  <1> HIDE DEF all
  <1>5. /\ Len(all) = Len(inbox) + 1
        /\ \A i \in 1..Len(inbox) : all[i + 1] = inbox[i]
    <2>1. ASSUME NEW i \in 1..Len(inbox) PROVE all[i + 1] = inbox[i]
      <3>1. i + 1 \in 1..Len(new) + Len(inbox) /\ ~(i + 1 <= Len(new)) /\ (i + 1) - Len(new) = i
        BY <1>1, <1>2
      <3>2. all[i + 1] = inbox[(i + 1) - Len(new)]
        BY <1>4, <3>1
      <3> QED BY <3>1, <3>2
    <2> QED BY <1>1, <1>2, <1>4, <2>1
  <1>6. 0 \in Nat /\ 0 + Keep = Keep
    BY <1>1
  <1>7. /\ inbox' \in Seq(Int) /\ Len(inbox') \in Nat
        /\ Len(inbox') <= Keep
    BY <1>1, <1>3, <1>4, <1>6, WindowIs
  <1>8. /\ Keep <= Len(all) => Len(inbox') = Keep
        /\ Keep > Len(all) => Len(inbox') >= Len(all)
    <2>1. /\ 0 + Keep <= Len(all) => Len(Window(all, 0, Keep)) = Keep
          /\ 0 + Keep > Len(all) => 0 + Len(Window(all, 0, Keep)) >= Len(all)
      BY <1>1, <1>4, <1>6, WindowIs
    <2> QED BY <1>3, <1>6, <1>7, <2>1
  <1>9. \A i \in 1..Len(inbox') : inbox'[i] = all[i]
    <2>1. \A i \in 1..Len(Window(all, 0, Keep)) : Window(all, 0, Keep)[i] = all[0 + i]
      BY <1>1, <1>4, <1>6, WindowItems
    <2> QED BY <1>3, <1>7, <2>1
  <1>10. ASSUME NEW i \in 1..Len(inbox), i + 1 <= Keep
         PROVE  i + 1 \in 1..Len(inbox') /\ inbox'[i + 1] = inbox[i]
    <2>1. i + 1 \in 1..Len(inbox')
      BY <1>1, <1>5, <1>7, <1>8, <1>10
    <2> QED BY <1>5, <1>9, <2>1
  <1>11. Len(inbox') >= Len(inbox)
    BY <1>1, <1>5, <1>7, <1>8
  <1> QED BY <1>7, <1>10, <1>11

LEMMA TypesStep ==
  ASSUME Types, [Next]_vars
  PROVE  Types'
  <1>1. CASE GetTimeline
    <2>1. PICK in, ht :
           /\ in = <<>> \/ in = InboxWindow(page, pageSize)
           /\ ht = <<>> \/ ht = HotWindow(page, pageSize)
           /\ failed' \subseteq {"inbox", "hot"} /\ unread' \subseteq Int
           /\ more' = HasMore(Merged(in, ht, pageSize), pageSize)
           /\ \A i \in DOMAIN last' : i \in 1..Len(Merged(in, ht, pageSize))
           /\ last' \in [DOMAIN last' -> Int] /\ IsInjective(last')
      <3>1. \E in, ht :
           /\ in = <<>> \/ in = InboxWindow(page, pageSize)
           /\ ht = <<>> \/ ht = HotWindow(page, pageSize)
           /\ failed' \subseteq {"inbox", "hot"} /\ unread' \subseteq Int
           /\ more' = HasMore(Merged(in, ht, pageSize), pageSize)
           /\ \A i \in DOMAIN last' : i \in 1..Len(Merged(in, ht, pageSize))
           /\ last' \in [DOMAIN last' -> Int] /\ IsInjective(last')
        BY <1>1, AnswerIs, Zenon
      <3> QED BY <3>1
    <2>2. Merged(in, ht, pageSize) \in Seq(Int) /\ Len(Merged(in, ht, pageSize)) <= pageSize
      BY <2>1, PageIs
    <2>3. DOMAIN last' \subseteq 1..pageSize
      <3> DEFINE merged == Merged(in, ht, pageSize)
      <3>1. \A i \in DOMAIN last' : i \in 1..Len(merged)
        BY <2>1
      <3>2. merged \in Seq(Int) /\ Len(merged) <= pageSize
        BY <2>2
      <3> HIDE DEF merged
      <3>3. Len(merged) \in Nat
        BY <3>2
      <3>4. pageSize \in 1..50 /\ pageSize \in Int
        <4>1. pageSize \in 1..50
          BY DEF Types, TypeOK
        <4> QED BY <4>1
      <3>5. 1..Len(merged) \subseteq 1..pageSize
        BY <3>2, <3>3, <3>4
      <3> QED BY <3>1, <3>5
    <2>4. more' \in BOOLEAN
      BY <2>1 DEF HasMore
    <2>5. before' \subseteq Int
      <3>1. \A p \in Range(last) : p \in Int
        BY DEF Types, TypeOK, Range
      <3> QED BY <1>1, <3>1 DEF GetTimeline, Types, TypeOK
    <2>6. page' \in Nat /\ page' # 0 /\ UNCHANGED <<inbox, hot, pageSize, due, arrivals, reranks>>
      BY <1>1 DEF GetTimeline, Types, TypeOK
    <2> QED BY <2>1, <2>3, <2>4, <2>5, <2>6 DEF Types, TypeOK
  <1>2. ASSUME Changed PROVE arrivals + 1 \in 0..MaxArrivals /\ reranks + 1 \in 0..MaxArrivals
    BY <1>2, BoundsAssumption DEF Changed, Types, TypeOK
  <1>3. CASE Arrive
    <2>1. inbox' \in Seq(Int) /\ Len(inbox') <= Keep
      BY <1>3, ArriveIs
    <2> QED BY <1>2, <1>3, <2>1 DEF Arrive, Changed, Types, TypeOK
  <1>4. CASE Rerank
    <2>1. hot' \in Seq(HotPosts)
      BY <1>4, HotListIs DEF Rerank
    <2> QED BY <1>2, <1>4, <2>1 DEF Rerank, Changed, Types, TypeOK
  <1>5. CASE Stop \/ UNCHANGED vars
    BY <1>5 DEF Stop, vars, Types, TypeOK
  <1> QED BY <1>1, <1>3, <1>4, <1>5 DEF Next

\* An answer is no longer than page_size and repeats no post, and values keep their types
\* (service.go 144-213).
THEOREM TypeCorrect == Spec => []TypeOK
  <1>1. Types => TypeOK
    BY DEF Types
  <1> QED BY <1>1, InitTypes, TypesStep, PTL DEF Spec

------------------------------------------------------------------------------
(* What the reader gets *)

\* A page takes InboxPerPage posts of its inbox window at least, or all of them.
LEMMA Advance ==
  ASSUME Types
  PROVE  /\ (page - 1) * InboxPerPage(pageSize) \in Nat
         /\ page * InboxPerPage(pageSize) = (page - 1) * InboxPerPage(pageSize) + InboxPerPage(pageSize)
         /\ (page - 1) * HotPerPage(pageSize) \in Nat
         /\ page * HotPerPage(pageSize) = (page - 1) * HotPerPage(pageSize) + HotPerPage(pageSize)
         /\ HotPerPage(pageSize) \in Nat /\ InboxPerPage(pageSize) \in Nat /\ pageSize \in Nat
         /\ InboxPerPage(pageSize) + HotPerPage(pageSize) = pageSize
         /\ HotPerPage(pageSize) > 0
  <1>1. page \in Nat /\ page # 0 /\ pageSize \in 1..50
    BY DEF Types, TypeOK
  <1>2. /\ HotPerPage(pageSize) \in 1..pageSize /\ HotPerPage(pageSize) \in Nat
        /\ InboxPerPage(pageSize) \in Nat
        /\ InboxPerPage(pageSize) + HotPerPage(pageSize) = pageSize
    BY <1>1, Sizes
  <1>3. \A a \in Nat \ {0}, b \in Nat : (a - 1) * b \in Nat /\ a * b = (a - 1) * b + b
    OBVIOUS
  <1> QED BY <1>1, <1>2, <1>3

LEMMA WalkStep ==
  ASSUME Types, WalkInv, [Next]_vars
  PROVE  WalkInv'
  <1> DEFINE ipp == InboxPerPage(pageSize)
             hpp == HotPerPage(pageSize)
             start == (page - 1) * InboxPerPage(pageSize)
  <1>0. /\ start \in Nat /\ page * ipp = start + ipp /\ ipp \in Nat /\ hpp \in Nat
        /\ ipp + hpp = pageSize /\ pageSize \in Nat /\ hpp > 0
        /\ inbox \in Seq(Int) /\ Len(inbox) \in Nat
    <2>1. inbox \in Seq(Int)
      BY DEF Types, TypeOK
    <2> QED BY <2>1, Advance
  <1>1. CASE GetTimeline
    <2>1. PICK in, ht :
           /\ in = <<>> \/ in = InboxWindow(page, pageSize)
           /\ ht = <<>> \/ ht = HotWindow(page, pageSize)
           /\ "inbox" \notin failed' => in = InboxWindow(page, pageSize)
           /\ failed \subseteq failed' /\ unread \subseteq unread'
           /\ more' = HasMore(Merged(in, ht, pageSize), pageSize)
           /\ \A i \in 1..Len(Merged(in, ht, pageSize)) :
                Merged(in, ht, pageSize)[i] \in Range(last') \cup Gone \cup unread'
      <3>1. \E in, ht :
           /\ in = <<>> \/ in = InboxWindow(page, pageSize)
           /\ ht = <<>> \/ ht = HotWindow(page, pageSize)
           /\ "inbox" \notin failed' => in = InboxWindow(page, pageSize)
           /\ failed \subseteq failed' /\ unread \subseteq unread'
           /\ more' = HasMore(Merged(in, ht, pageSize), pageSize)
           /\ \A i \in 1..Len(Merged(in, ht, pageSize)) :
                Merged(in, ht, pageSize)[i] \in Range(last') \cup Gone \cup unread'
        BY <1>1, AnswerIs, Zenon
      <3> QED BY <3>1
    <2>2. /\ before' = before \cup Range(last) /\ page' = page + 1 /\ more
          /\ UNCHANGED <<inbox, hot, pageSize, due, arrivals>>
      BY <1>1 DEF GetTimeline
    <2> DEFINE merged == Merged(in, ht, pageSize)
    <2>3. /\ in \in Seq(Int) /\ ht \in Seq(Int) /\ Len(in) \in Nat /\ Len(ht) \in Nat
          /\ Len(in) <= pageSize /\ Len(ht) <= hpp
      BY <2>1, PageIs
    <2>4. Len(merged) = (IF pageSize < Len(in) + Len(ht) THEN pageSize ELSE Len(in) + Len(ht))
      BY <1>0, <2>3, MergedIs, Zenon
    <2>5. \A j \in 1..Len(merged) : merged[j] = Interleaved(in, ht)[j]
      BY <1>0, <2>3, MergedIs, Zenon
    <2>6. \A w \in 1..Len(in) : \E j \in 1..Len(in) + Len(ht) :
              j <= w + Len(ht) /\ Interleaved(in, ht)[j] = in[w]
      BY <2>3, InterleavedIs, Zenon
    <2> HIDE DEF merged, start, ipp, hpp
    <2>7. start' = start + ipp
      <3>1. start' = (page' - 1) * InboxPerPage(pageSize')
        BY DEF start, InboxPerPage, HotPerPage
      <3>2. page' - 1 = page /\ pageSize' = pageSize
        BY <2>2 DEF Types, TypeOK
      <3>3. start' = page * ipp
        BY <3>1, <3>2 DEF ipp
      <3> QED BY <1>0, <3>3
    <2>8. more' <=> Len(merged) >= pageSize
      BY <2>1 DEF HasMore, merged
    <2>9. Shown' = Shown \cup Range(last')
      BY <2>2 DEF Shown
    \* What is in the inbox window and comes early enough is shown.
    <2>10. ASSUME NEW w \in 1..Len(in), w <= ipp \/ ~more'
           PROVE  in[w] \in Shown' \cup Gone \cup unread'
      <3>1. PICK j \in 1..Len(in) + Len(ht) : j <= w + Len(ht) /\ Interleaved(in, ht)[j] = in[w]
        BY <2>6
      <3>2. j \in 1..Len(merged)
        BY <1>0, <2>3, <2>4, <2>8, <2>10, <3>1
      <3>3. merged[j] = in[w]
        BY <2>5, <3>1, <3>2
      <3>4. merged[j] \in Range(last') \cup Gone \cup unread'
        BY <2>1, <3>2 DEF merged
      <3> QED BY <2>9, <3>3, <3>4
    <2>11. ASSUME "inbox" \notin failed'
           PROVE  /\ \A i \in 1..Len(in) : in[i] = inbox[start + i]
                  /\ start + pageSize > Len(inbox) => start + Len(in) >= Len(inbox)
                  /\ start + pageSize <= Len(inbox) => Len(in) = pageSize
      <3>1. in = Window(inbox, start, ipp + hpp)
        BY <2>1, <2>11 DEF InboxWindow, start, ipp, hpp
      <3>2. in = Window(inbox, start, pageSize)
        BY <1>0, <3>1
      <3>3. inbox \in Seq(Int) /\ start \in Nat /\ pageSize \in Nat
        BY <1>0
      <3>4. \A i \in 1..Len(Window(inbox, start, pageSize)) :
                 Window(inbox, start, pageSize)[i] = inbox[start + i]
        BY <3>3, WindowItems, Zenon
      <3>5. start + pageSize > Len(inbox) =>
                 start + Len(Window(inbox, start, pageSize)) >= Len(inbox)
        BY <3>3, WindowIs
      <3>6. start + pageSize <= Len(inbox) => Len(Window(inbox, start, pageSize)) = pageSize
        BY <3>3, WindowIs
      <3> QED BY <3>2, <3>4, <3>5, <3>6
    <2>12. ASSUME "inbox" \notin failed', NEW d \in 1..Len(due), d + arrivals <= Keep,
                  due[d] \notin Shown' \cup Gone \cup unread'
           PROVE  Ahead(due[d], d + arrivals)' /\ more'
      <3> DEFINE p == due[d]
      <3>1. "inbox" \notin failed /\ Owed(d)
        BY <2>1, <2>9, <2>12 DEF Owed
      <3>2. PICK i \in 1..Len(inbox) : inbox[i] = p /\ i <= d + arrivals /\ i > start
        BY <3>1, <2>12 DEF WalkInv, OwedAhead, Ahead, start
      <3> HIDE DEF p
      <3>3. i \in Nat /\ i <= Len(inbox)
        BY <1>0
      <3>4. ASSUME i - start \in 1..Len(in), i - start <= ipp \/ ~more' PROVE FALSE
        <4> DEFINE w == i - start
        <4>1. w \in 1..Len(in) /\ (w <= ipp \/ ~more') /\ start + w = i
          BY <1>0, <3>3, <3>4
        <4> HIDE DEF w
        <4>2. in[w] \in Shown' \cup Gone \cup unread'
          BY <2>10, <4>1
        <4>3. in[w] = p
          BY <2>11, <2>12, <3>2, <4>1
        <4> QED BY <2>12, <4>2, <4>3 DEF p
      <3>5. CASE ~more'
        <4>1. Len(in) < pageSize
          BY <1>0, <2>3, <2>4, <2>8, <3>5
        <4>2. start + Len(in) >= Len(inbox)
          BY <1>0, <2>3, <2>11, <2>12, <4>1
        <4>3. i - start \in 1..Len(in)
          BY <1>0, <2>3, <3>2, <3>3, <4>2
        <4> QED BY <3>4, <3>5, <4>3
      <3>6. CASE more'
        <4>1. ~(i <= start + ipp)
          <5>1. ASSUME i <= start + ipp PROVE FALSE
            <6>1. /\ i > start /\ start \in Nat /\ ipp \in Nat /\ hpp \in Nat
                  /\ ipp + hpp = pageSize /\ Len(inbox) \in Nat
              BY <1>0, <3>2
            <6>2. i - start <= ipp /\ i - start \in Nat /\ i - start >= 1
              BY <3>3, <5>1, <6>1
            <6>3. CASE start + pageSize > Len(inbox)
              <7>1. start + Len(in) >= Len(inbox)
                BY <2>11, <2>12, <6>3
              <7>2. i - start \in 1..Len(in)
                BY <2>3, <3>3, <6>1, <6>2, <7>1
              <7> QED BY <3>4, <6>2, <7>2
            <6>4. CASE ~(start + pageSize > Len(inbox))
              <7>1. Len(in) = pageSize
                BY <2>11, <2>12, <6>1, <6>4
              <7>2. i - start \in 1..Len(in)
                BY <6>1, <6>2, <7>1
              <7> QED BY <3>4, <6>2, <7>2
            <6> QED BY <6>3, <6>4
          <5> QED BY <5>1
        <4>2. i > start'
          BY <1>0, <2>7, <3>3, <4>1
        <4>3. inbox' = inbox /\ due' = due /\ arrivals' = arrivals
          BY <2>2
        <4> QED BY <3>2, <3>6, <4>2, <4>3 DEF Ahead, start, p
      <3> QED BY <3>5, <3>6
    <2>13. InboxComplete'
      <3>1. due' = due /\ arrivals' = arrivals
        BY <2>2
      <3> QED BY <2>12, <3>1 DEF InboxComplete
    <2>14. PagesEnd'
      <3>1. ASSUME more' PROVE start + ipp <= Len(inbox)
        <4>1. Len(in) >= ipp
          BY <1>0, <2>3, <2>4, <2>8, <3>1
        <4>2. CASE ipp = 0
          <5>1. start <= Len(inbox)
            BY <2>2 DEF WalkInv, PagesEnd, start
          <5> QED BY <1>0, <4>2, <5>1
        <4>3. CASE ipp # 0
          <5>1. in # <<>>
            BY <1>0, <2>3, <4>1, <4>3
          <5>2. in = Window(inbox, start, ipp + hpp)
            BY <2>1, <5>1 DEF InboxWindow, start, ipp, hpp
          <5>3. in = Window(inbox, start, pageSize)
            BY <1>0, <5>2
          <5>4. Len(Window(inbox, start, pageSize)) > 0 =>
                  start + Len(Window(inbox, start, pageSize)) <= Len(inbox)
            BY <1>0, WindowIs, Zenon
          <5>5. start + Len(in) <= Len(inbox)
            BY <1>0, <2>3, <4>1, <4>3, <5>3, <5>4
          <5> QED BY <1>0, <2>3, <4>1, <5>5
        <4> QED BY <4>2, <4>3
      <3>2. more' => start' <= Len(inbox')
        BY <2>2, <2>7, <3>1
      <3> QED BY <3>2 DEF PagesEnd, start
    <2>15. due' = due /\ arrivals' = arrivals
      BY <2>2
    <2>16. "inbox" \notin failed' => OwedAhead'
      BY <2>12, <2>15 DEF Owed, OwedAhead
    <2> QED BY <2>13, <2>14, <2>16 DEF WalkInv
  <1>2. CASE Arrive
    <2>1. /\ more' = more /\ more /\ arrivals' = arrivals + 1 /\ arrivals \in Nat
          /\ UNCHANGED <<pageSize, page, more, last, before, due, failed, unread>>
      BY <1>2 DEF Arrive, Changed, Types, TypeOK
    <2>2. /\ Len(inbox') >= Len(inbox) /\ Len(inbox') \in Nat
          /\ \A i \in 1..Len(inbox) :
               i + 1 <= Keep => i + 1 \in 1..Len(inbox') /\ inbox'[i + 1] = inbox[i]
      BY <1>2, ArriveIs
    <2>3. Keep \in Nat
      BY KeepAssumption
    <2>4. start' = start /\ Shown' = Shown
      BY <2>1 DEF Shown
    <2> HIDE DEF start
    <2>5. ASSUME "inbox" \notin failed', NEW d \in 1..Len(due), Owed(d)'
          PROVE  Ahead(due[d], d + arrivals)'
      <3>0. d \in Nat /\ d + arrivals + 1 <= Keep
        BY <2>1, <2>5 DEF Owed, Types, TypeOK
      <3>1. Owed(d)
        BY <2>1, <2>3, <2>4, <2>5, <3>0 DEF Owed
      <3>2. PICK i \in 1..Len(inbox) : inbox[i] = due[d] /\ i <= d + arrivals /\ i > start
        BY <2>1, <2>5, <3>1 DEF WalkInv, OwedAhead, Ahead, start
      <3>3. i + 1 <= Keep /\ i + 1 <= d + arrivals' /\ i + 1 > start'
        BY <1>0, <2>1, <2>3, <2>4, <3>0, <3>2
      <3>4. i + 1 \in 1..Len(inbox') /\ inbox'[i + 1] = due'[d]
        BY <2>1, <2>2, <3>2, <3>3
      <3> QED BY <3>3, <3>4 DEF Ahead, start
    <2>6. PagesEnd'
      <3>1. start <= Len(inbox)
        BY <2>1 DEF WalkInv, PagesEnd, start
      <3>2. start' <= Len(inbox')
        BY <1>0, <2>2, <2>4, <3>1
      <3> QED BY <3>2 DEF PagesEnd, start
    <2>7. "inbox" \notin failed' => OwedAhead'
      BY <2>1, <2>5 DEF OwedAhead
    <2>8. InboxComplete'
      BY <2>1 DEF InboxComplete
    <2> QED BY <2>6, <2>7, <2>8 DEF WalkInv
  <1>3. ASSUME UNCHANGED <<inbox, pageSize, page, more, last, before, due, arrivals, failed,
                          unread>>
        PROVE  WalkInv'
    <2>1. \A i : /\ Ahead(due[i], i + arrivals)' = Ahead(due[i], i + arrivals)
                 /\ Owed(i)' = Owed(i)
      BY <1>3 DEF Ahead, Owed, Shown
    <2>2. InboxComplete' = InboxComplete /\ PagesEnd' = PagesEnd /\ Shown' = Shown
      BY <1>3 DEF InboxComplete, PagesEnd, Shown
    <2> QED BY <1>3, <2>1, <2>2 DEF WalkInv, OwedAhead
  <1>4. CASE Rerank
    BY <1>3, <1>4 DEF Rerank, Changed
  <1>5. CASE Stop \/ UNCHANGED vars
    BY <1>3, <1>5 DEF Stop, vars
  <1> QED BY <1>1, <1>2, <1>4, <1>5 DEF Next

LEMMA InitWalk ==
  ASSUME Init
  PROVE  WalkInv
  <1>1. Types
    BY InitTypes
  <1>2. page = 1 /\ more = TRUE /\ due = inbox /\ inbox \in Seq(Int) /\ Len(inbox) \in Nat
    BY <1>1 DEF Init, Types, TypeOK
  <1>3. (page - 1) * InboxPerPage(pageSize) = 0
    <2>1. InboxPerPage(pageSize) \in Nat /\ page - 1 = 0
      BY <1>1, <1>2, Advance
    <2>2. \A b \in Nat : 0 * b = 0
      OBVIOUS
    <2> QED BY <2>1, <2>2
  <1>4. PagesEnd /\ InboxComplete
    BY <1>2, <1>3 DEF PagesEnd, InboxComplete
  <1>5. ASSUME NEW i \in 1..Len(due) PROVE Ahead(due[i], i + arrivals)
    <2>1. i \in 1..Len(inbox) /\ inbox[i] = due[i] /\ i > 0 /\ arrivals = 0
      BY <1>2 DEF Init
    <2>2. i <= i + arrivals
      BY <1>2, <2>1
    <2> QED BY <1>3, <2>1, <2>2 DEF Ahead
  <1> QED BY <1>4, <1>5 DEF WalkInv, OwedAhead

\* Who is told that there is no more has been given all of the inbox he began with but what
\* is gone, could not be read or was pushed out of a full inbox by the posts that arrived
\* meanwhile (service.go 157-203, fanout.py 31-32).
THEOREM InboxIsComplete == Spec => []InboxComplete
  <1>1. Types /\ WalkInv /\ [Next]_vars => (Types /\ WalkInv)'
    BY TypesStep, WalkStep
  <1>2. WalkInv => InboxComplete
    BY DEF WalkInv
  <1>3. Init => Types /\ WalkInv
    BY InitTypes, InitWalk
  <1> QED BY <1>1, <1>2, <1>3, PTL DEF Spec

\* The reader comes to the end of the inbox: no page promises another without having used
\* up its share of it (service.go 157-203).
THEOREM WalkEnds == Spec => []PagesEnd
  <1>1. Types /\ WalkInv /\ [Next]_vars => (Types /\ WalkInv)'
    BY TypesStep, WalkStep
  <1>2. WalkInv => PagesEnd
    BY DEF WalkInv
  <1>3. Init => Types /\ WalkInv
    BY InitTypes, InitWalk
  <1> QED BY <1>1, <1>2, <1>3, PTL DEF Spec

------------------------------------------------------------------------------
(* The share of the hot posts *)

\* Every fifth of 5 * h places.
LEMMA EveryFifth ==
  ASSUME NEW h \in Nat, NEW n \in Nat, 5 * h <= n
  PROVE  /\ IsFiniteSet({j \in 1..n : j <= 5 * h /\ j % 5 = 0})
         /\ Cardinality({j \in 1..n : j <= 5 * h /\ j % 5 = 0}) = h
  <1> DEFINE T == {j \in 1..n : j <= 5 * h /\ j % 5 = 0}
             f == [k \in 1..h |-> 5 * k]
  <1>1. \A k \in 1..h : 5 * k \in T
    OBVIOUS
  <1>2. f \in [1..h -> T] /\ \A k \in 1..h : f[k] = 5 * k
    BY <1>1
  <1>3. \A j \in T : j \div 5 \in 1..h /\ 5 * (j \div 5) = j
    OBVIOUS
  <1> HIDE DEF f, T
  <1>4. IsInjective(f)
    BY <1>2 DEF IsInjective
  <1>5. \A j \in T : \E k \in 1..h : f[k] = j
    BY <1>2, <1>3
  <1>6. f \in Bijection(1..h, T)
    BY <1>2, <1>4, <1>5 DEF Bijection, Injection, Surjection
  <1>7. ExistsBijection(1..h, T)
    BY <1>6 DEF ExistsBijection
  <1>8. IsFiniteSet(1..h) /\ Cardinality(1..h) = h
    BY FS_Interval
  <1>9. IsFiniteSet(T) /\ Cardinality(T) = Cardinality(1..h)
    BY <1>7, <1>8, FS_Bijection
  <1> QED BY <1>8, <1>9 DEF T

\* Where the windows of a full page lie.
LEMMA FullWindows ==
  ASSUME Types, Full(page)
  PROVE  /\ (page - 1) * InboxPerPage(pageSize) + pageSize <= Len(inbox)
         /\ (page - 1) * HotPerPage(pageSize) + HotPerPage(pageSize) <= Len(hot)
         /\ 5 * HotPerPage(pageSize) <= pageSize
         /\ page > 1 => Full(page - 1)
  <1> DEFINE ipp == InboxPerPage(pageSize)
             hpp == HotPerPage(pageSize)
             start == (page - 1) * InboxPerPage(pageSize)
             hs == (page - 1) * HotPerPage(pageSize)
  <1>1. /\ start \in Nat /\ page * ipp = start + ipp /\ hs \in Nat /\ page * hpp = hs + hpp
        /\ hpp \in Nat /\ ipp \in Nat /\ pageSize \in Nat /\ ipp + hpp = pageSize
    BY Advance
  <1>2. page \in Nat /\ page # 0 /\ pageSize \in 1..50 /\ inbox \in Seq(Int) /\ hot \in Seq(HotPosts)
    BY DEF Types, TypeOK
  <1>3. Len(inbox) \in Nat /\ Len(hot) \in Nat
    BY <1>2
  <1>4. /\ pageSize > InboxRatio /\ page * pageSize <= Len(inbox) /\ page * hpp <= Len(hot)
        /\ Range(hot) \cap (Range(due) \cup Gone) = {} /\ arrivals = 0
        /\ failed = {} /\ unread = {}
    BY DEF Full
  <1>5. 5 * hpp <= pageSize
    BY <1>2, <1>4, Sizes
  <1> HIDE DEF ipp, hpp, start, hs
  <1>6. page * pageSize = page * ipp + page * hpp
    <2>1. \A a, b, c \in Nat : a * (b + c) = a * b + a * c
      OBVIOUS
    <2> QED BY <1>1, <1>2, <2>1
  <1>7. (page - 1) * pageSize = page * pageSize - pageSize
    <2>1. \A a, b \in Nat : a # 0 => (a - 1) * b = a * b - b
      OBVIOUS
    <2> QED BY <1>1, <1>2, <2>1
  <1>8. page * pageSize \in Nat
    <2>1. \A a, b \in Nat : a * b \in Nat
      OBVIOUS
    <2> QED BY <1>1, <1>2, <2>1
  <1>9. (page - 1) * pageSize <= Len(inbox) /\ hs <= Len(hot)
    BY <1>1, <1>3, <1>4, <1>7, <1>8
  <1>10. page > 1 => Full(page - 1)
    BY <1>4, <1>9 DEF Full, hpp, hs
  <1>11. start + pageSize <= Len(inbox)
    BY <1>1, <1>3, <1>4, <1>6
  <1>12. hs + hpp <= Len(hot)
    BY <1>1, <1>4
  <1> QED BY <1>5, <1>10, <1>11, <1>12 DEF ipp, hpp, start, hs

\* The places of the hot posts in a full page.
HotPlace(j) == j <= 5 * HotPerPage(pageSize) /\ j % 5 = 0

\* A post of the page's share of the inbox.
OfInbox(p) ==
    \E i \in 1..InboxPerPage(pageSize) :
      /\ (page - 1) * InboxPerPage(pageSize) + i \in 1..Len(inbox)
      /\ p = inbox[(page - 1) * InboxPerPage(pageSize) + i]

\* The merged list of a full page: every fifth of 5 * HotPerPage posts is hot, in the order
\* of the hot list, and the others come from the first InboxPerPage of the inbox window.
LEMMA FullPage ==
  ASSUME Types, Full(page), arrivals = 0 => inbox = due,
         NEW in, in = InboxWindow(page, pageSize), NEW ht, ht = HotWindow(page, pageSize)
  PROVE  /\ Merged(in, ht, pageSize) \in Seq(Int) /\ Len(Merged(in, ht, pageSize)) = pageSize
         /\ \A j \in 1..pageSize : HotPlace(j) =>
              /\ j \div 5 \in 1..HotPerPage(pageSize)
              /\ (page - 1) * HotPerPage(pageSize) + j \div 5 \in 1..Len(hot)
              /\ Merged(in, ht, pageSize)[j] = hot[(page - 1) * HotPerPage(pageSize) + j \div 5]
         /\ \A j \in 1..pageSize : ~HotPlace(j) => OfInbox(Merged(in, ht, pageSize)[j])
  <1> DEFINE ipp == InboxPerPage(pageSize)
             hpp == HotPerPage(pageSize)
             start == (page - 1) * InboxPerPage(pageSize)
             hs == (page - 1) * HotPerPage(pageSize)
             merged == Merged(in, ht, pageSize)
  <1>1. /\ start \in Nat /\ hs \in Nat
        /\ hpp \in Nat /\ ipp \in Nat /\ pageSize \in Nat /\ ipp + hpp = pageSize
    BY Advance
  <1>2. inbox \in Seq(Int) /\ hot \in Seq(Int) /\ Len(inbox) \in Nat /\ Len(hot) \in Nat
    <2>1. inbox \in Seq(Int) /\ hot \in HotLists
      BY DEF Types, TypeOK
    <2> QED BY <2>1, HotListIs
  <1>3. start + pageSize <= Len(inbox) /\ hs + hpp <= Len(hot) /\ 5 * hpp <= pageSize
    BY FullWindows
  <1>4. in = Window(inbox, start, ipp + hpp) /\ ht = Window(hot, hs, hpp)
    BY DEF InboxWindow, HotWindow
  <1> HIDE DEF ipp, hpp, start, hs
  <1>5. in = Window(inbox, start, pageSize)
    BY <1>1, <1>4
  <1>6. in \in Seq(Int)
    BY <1>1, <1>2, <1>5, WindowType
  <1>7. Len(in) = pageSize
    BY <1>1, <1>2, <1>3, <1>5, WindowLen
  <1>8. \A i \in 1..Len(in) : in[i] = inbox[start + i]
    <2>1. inbox \in Seq(Int) /\ start \in Nat /\ pageSize \in Nat
      BY <1>1, <1>2
    <2>2. \A i \in 1..Len(Window(inbox, start, pageSize)) :
            Window(inbox, start, pageSize)[i] = inbox[start + i]
      BY <2>1, WindowItems, Zenon
    <2> QED BY <1>5, <2>2
  <1>9. ht \in Seq(Int)
    BY <1>1, <1>2, <1>4, WindowType
  <1>10. Len(ht) = hpp
    BY <1>1, <1>2, <1>3, <1>4, WindowLen
  <1>11. \A i \in 1..Len(ht) : ht[i] = hot[hs + i]
    <2>1. hot \in Seq(Int) /\ hs \in Nat /\ hpp \in Nat
      BY <1>1, <1>2
    <2>2. \A i \in 1..Len(Window(hot, hs, hpp)) : Window(hot, hs, hpp)[i] = hot[hs + i]
      BY <2>1, WindowItems, Zenon
    <2> QED BY <1>4, <2>2
  <1>12. merged \in Seq(Int)
    BY <1>1, <1>6, <1>9, MergedIs
  <1>13. Len(merged) = IF pageSize < Len(in) + Len(ht) THEN pageSize ELSE Len(in) + Len(ht)
    <2>1. in \in Seq(Int) /\ ht \in Seq(Int) /\ pageSize \in Nat
      BY <1>1, <1>6, <1>9
    <2> QED BY <2>1, MergedIs, Zenon
  <1>14. \A j \in 1..Len(merged) : merged[j] = Interleaved(in, ht)[j]
    <2>1. in \in Seq(Int) /\ ht \in Seq(Int) /\ pageSize \in Nat
      BY <1>1, <1>6, <1>9
    <2> QED BY <2>1, MergedIs, Zenon
  <1> HIDE DEF merged
  <1>15. Len(merged) = pageSize
    BY <1>1, <1>7, <1>10, <1>13
  <1>16. 4 * Len(ht) <= Len(in)
    BY <1>1, <1>3, <1>7, <1>10
  <1>17. \A j \in 1..Len(in) + Len(ht) :
           /\ j <= 5 * Len(ht) /\ j % 5 = 0 =>
                j \div 5 \in 1..Len(ht) /\ Interleaved(in, ht)[j] = ht[j \div 5]
           /\ j <= 5 * Len(ht) /\ j % 5 # 0 =>
                \E i \in 1..Len(in) : i <= 4 * Len(ht) /\ Interleaved(in, ht)[j] = in[i]
           /\ j > 5 * Len(ht) => Interleaved(in, ht)[j] = in[j - Len(ht)]
    BY <1>6, <1>9, <1>16, InterleavedIs
  <1>18. ASSUME NEW j \in 1..pageSize, j <= 5 * hpp /\ j % 5 = 0
         PROVE  /\ j \div 5 \in 1..hpp /\ hs + j \div 5 \in 1..Len(hot)
                /\ merged[j] = hot[hs + j \div 5]
    <2>1. j \in 1..Len(in) + Len(ht) /\ j \in 1..Len(merged)
      BY <1>1, <1>7, <1>10, <1>15
    <2>2. j \div 5 \in 1..Len(ht) /\ Interleaved(in, ht)[j] = ht[j \div 5]
      BY <1>10, <1>17, <1>18, <2>1
    <2>3. merged[j] = hot[hs + j \div 5]
      BY <1>11, <1>14, <2>1, <2>2
    <2>4. hs + j \div 5 \in 1..Len(hot)
      <3> DEFINE k == j \div 5
      <3>1. k \in 1..hpp
        BY <1>10, <2>2
      <3> HIDE DEF k
      <3>2. hs + k \in 1..Len(hot)
        BY <1>1, <1>2, <1>3, <3>1
      <3> QED BY <3>2 DEF k
    <2> QED BY <1>10, <2>2, <2>3, <2>4
  <1>19. ASSUME NEW j \in 1..pageSize, ~(j <= 5 * hpp /\ j % 5 = 0)
         PROVE  \E i \in 1..ipp : start + i \in 1..Len(inbox) /\ merged[j] = inbox[start + i]
    <2>1. j \in 1..Len(in) + Len(ht) /\ j \in 1..Len(merged)
      BY <1>1, <1>7, <1>10, <1>15
    <2>2. \E i \in 1..Len(in) : i <= ipp /\ Interleaved(in, ht)[j] = in[i]
      <3>1. CASE j <= 5 * hpp
        <4>1. j % 5 # 0
          BY <1>19, <3>1
        <4>2. PICK i \in 1..Len(in) : i <= 4 * hpp /\ Interleaved(in, ht)[j] = in[i]
          BY <1>10, <1>17, <2>1, <3>1, <4>1
        <4>3. i <= ipp
          BY <1>1, <1>3, <1>7, <4>2
        <4> QED BY <4>2, <4>3
      <3>2. CASE ~(j <= 5 * hpp)
        <4>1. Interleaved(in, ht)[j] = in[j - hpp]
          BY <1>1, <1>10, <1>17, <2>1, <3>2
        <4>2. j - hpp \in 1..Len(in) /\ j - hpp <= ipp
          BY <1>1, <1>7, <3>2
        <4> QED BY <4>1, <4>2
      <3> QED BY <3>1, <3>2
    <2>3. PICK i \in 1..Len(in) : i <= ipp /\ Interleaved(in, ht)[j] = in[i]
      BY <2>2
    <2>4. merged[j] = inbox[start + i]
      BY <1>8, <1>14, <2>1, <2>3
    <2>5. i \in 1..ipp /\ start + i \in 1..Len(inbox)
      BY <1>1, <1>2, <1>3, <1>7, <2>3
    <2> QED BY <2>4, <2>5
  <1> QED BY <1>12, <1>15, <1>18, <1>19 DEF ipp, hpp, start, hs, merged, HotPlace, OfInbox

LEMMA InitSlots ==
  ASSUME Init
  PROVE  SlotInv
  <1>1. PICK n \in 0..MaxInbox : inbox = [i \in 1..n |-> i]
    BY DEF Init
  <1>2. IsInjective(due)
    BY <1>1 DEF Init, IsInjective
  <1> QED BY <1>2 DEF Init, SlotInv, SlotRatio

\* The posts of a page's windows are not those of the windows before.
LEMMA BetweenApart ==
  ASSUME Types, SlotInv, Full(page), NEW p, Between(p, page - 1, page), Between(p, 0, page - 1)
  PROVE  FALSE
  <1> DEFINE start == (page - 1) * InboxPerPage(pageSize)
             hs == (page - 1) * HotPerPage(pageSize)
  <1>1. start \in Nat /\ hs \in Nat
    BY Advance
  <1>2. /\ inbox \in Seq(Int) /\ hot \in HotLists /\ IsInjective(inbox) /\ inbox = due
        /\ Range(hot) \cap Range(due) = {}
    BY DEF Types, TypeOK, SlotInv, Full
  <1>3. IsInjective(hot) /\ hot \in Seq(Int)
    BY <1>2, HotListIs
  <1>4. DOMAIN inbox = 1..Len(inbox) /\ DOMAIN hot = 1..Len(hot) /\ Len(inbox) \in Nat /\ Len(hot) \in Nat
    BY <1>2, <1>3
  <1>5. /\ \A i \in 1..Len(inbox) : inbox[i] \in Range(due)
        /\ \A i \in 1..Len(hot) : hot[i] \in Range(hot)
    BY <1>2, <1>4 DEF Range
  <1>6. /\ \A i, j \in 1..Len(inbox) : inbox[i] = inbox[j] => i = j
        /\ \A i, j \in 1..Len(hot) : hot[i] = hot[j] => i = j
    BY <1>2, <1>3, <1>4 DEF IsInjective
  <1>7. \/ \E i \in 1..Len(inbox) : p = inbox[i] /\ start < i
        \/ \E i \in 1..Len(hot) : p = hot[i] /\ hs < i
    BY DEF Between
  <1>8. \/ \E i \in 1..Len(inbox) : p = inbox[i] /\ i <= start
        \/ \E i \in 1..Len(hot) : p = hot[i] /\ i <= hs
    BY DEF Between
  <1> HIDE DEF start, hs
  <1>9. CASE p \in Range(due)
    <2>1. PICK i \in 1..Len(inbox) : p = inbox[i] /\ start < i
      BY <1>2, <1>5, <1>7, <1>9
    <2>2. PICK j \in 1..Len(inbox) : p = inbox[j] /\ j <= start
      BY <1>2, <1>5, <1>8, <1>9
    <2>3. i = j
      BY <1>6, <2>1, <2>2
    <2> QED BY <1>1, <1>4, <2>1, <2>2, <2>3
  <1>10. CASE p \notin Range(due)
    <2>1. PICK i \in 1..Len(hot) : p = hot[i] /\ hs < i
      BY <1>5, <1>7, <1>10
    <2>2. PICK j \in 1..Len(hot) : p = hot[j] /\ j <= hs
      BY <1>5, <1>8, <1>10
    <2>3. i = j
      BY <1>6, <2>1, <2>2
    <2> QED BY <1>1, <1>4, <2>1, <2>2, <2>3
  <1> QED BY <1>9, <1>10

\* The windows of more pages hold more posts.
LEMMA Widen ==
  ASSUME Types, page > 1, NEW p
  PROVE  /\ Between(p, page - 2, page - 1) => Between(p, 0, page - 1)
         /\ Between(p, 0, page - 2) => Between(p, 0, page - 1)
  <1>1. page \in Nat /\ InboxPerPage(pageSize) \in Nat /\ HotPerPage(pageSize) \in Nat
    <2>1. page \in Nat
      BY DEF Types, TypeOK
    <2> QED BY <2>1, Advance
  <1>2. \A k, b \in Nat : k > 1 => /\ (k - 2) * b \in Nat /\ (k - 1) * b = (k - 2) * b + b
                                 /\ 0 * b = 0 /\ (k - 1) * b \in Nat
    OBVIOUS
  <1> DEFINE x == (page - 2) * InboxPerPage(pageSize)
             y == (page - 1) * InboxPerPage(pageSize)
             u == (page - 2) * HotPerPage(pageSize)
             v == (page - 1) * HotPerPage(pageSize)
  <1>3. /\ x \in Nat /\ y \in Nat /\ x <= y /\ 0 * InboxPerPage(pageSize) = 0
        /\ u \in Nat /\ v \in Nat /\ u <= v /\ 0 * HotPerPage(pageSize) = 0
    <2>1. x \in Nat /\ y = x + InboxPerPage(pageSize) /\ 0 * InboxPerPage(pageSize) = 0
      BY <1>1, <1>2
    <2>2. u \in Nat /\ v = u + HotPerPage(pageSize) /\ 0 * HotPerPage(pageSize) = 0
      BY <1>1, <1>2
    <2> HIDE DEF x, y, u, v
    <2> QED BY <1>1, <2>1, <2>2
  <1>4. Len(inbox) \in Nat /\ Len(hot) \in Nat
    <2>1. inbox \in Seq(Int) /\ hot \in Seq(HotPosts)
      BY DEF Types, TypeOK
    <2> QED BY <2>1
  <1>5. Between(p, page - 2, page - 1) <=>
          \/ \E i \in 1..Len(inbox) : p = inbox[i] /\ x < i /\ i <= y
          \/ \E i \in 1..Len(hot) : p = hot[i] /\ u < i /\ i <= v
    BY DEF Between
  <1>6. Between(p, 0, page - 1) <=>
          \/ \E i \in 1..Len(inbox) : p = inbox[i] /\ 0 < i /\ i <= y
          \/ \E i \in 1..Len(hot) : p = hot[i] /\ 0 < i /\ i <= v
    BY <1>3 DEF Between
  <1>7. Between(p, 0, page - 2) <=>
          \/ \E i \in 1..Len(inbox) : p = inbox[i] /\ 0 < i /\ i <= x
          \/ \E i \in 1..Len(hot) : p = hot[i] /\ 0 < i /\ i <= u
    BY <1>3 DEF Between
  <1> HIDE DEF x, y, u, v
  <1> QED BY <1>3, <1>4, <1>5, <1>6, <1>7

\* A full page has its share of hot posts, and posts of its own windows only.
LEMMA FullAnswer ==
  ASSUME Types, SlotInv, GetTimeline, Full(page), failed' = {}, unread' = {}
  PROVE  /\ \A p \in Range(last') : Between(p, page - 1, page)
         /\ Cardinality({i \in DOMAIN last' : last'[i] \in Range(hot)}) = HotPerPage(pageSize)
  <1> DEFINE ipp == InboxPerPage(pageSize)
             hpp == HotPerPage(pageSize)
             start == (page - 1) * InboxPerPage(pageSize)
             hs == (page - 1) * HotPerPage(pageSize)
  <1>1. PICK in, ht :
           /\ "inbox" \notin failed' => in = InboxWindow(page, pageSize)
           /\ "hot" \notin failed' => ht = HotWindow(page, pageSize)
           /\ \A i \in DOMAIN last' :
                /\ i \in 1..Len(Merged(in, ht, pageSize))
                /\ last'[i] = Merged(in, ht, pageSize)[i]
           /\ \A i \in 1..Len(Merged(in, ht, pageSize)) :
                /\ \A j \in 1..i - 1 : Merged(in, ht, pageSize)[j] # Merged(in, ht, pageSize)[i]
                /\ Merged(in, ht, pageSize)[i] \notin Gone \cup unread'
                => i \in DOMAIN last'
    <2>1. \E in, ht :
           /\ "inbox" \notin failed' => in = InboxWindow(page, pageSize)
           /\ "hot" \notin failed' => ht = HotWindow(page, pageSize)
           /\ \A i \in DOMAIN last' :
                /\ i \in 1..Len(Merged(in, ht, pageSize))
                /\ last'[i] = Merged(in, ht, pageSize)[i]
           /\ \A i \in 1..Len(Merged(in, ht, pageSize)) :
                /\ \A j \in 1..i - 1 : Merged(in, ht, pageSize)[j] # Merged(in, ht, pageSize)[i]
                /\ Merged(in, ht, pageSize)[i] \notin Gone \cup unread'
                => i \in DOMAIN last'
      BY AnswerIs, Zenon
    <2> QED BY <2>1
  <1>2. in = InboxWindow(page, pageSize) /\ ht = HotWindow(page, pageSize)
    BY <1>1
  <1> DEFINE merged == Merged(in, ht, pageSize)
  <1>3. \A i \in DOMAIN last' : i \in 1..Len(merged) /\ last'[i] = merged[i]
    BY <1>1, Zenon
  <1>4. \A i \in 1..Len(merged) :
           (\A j \in 1..i - 1 : merged[j] # merged[i]) /\ merged[i] \notin Gone \cup unread'
           => i \in DOMAIN last'
    BY <1>1, Zenon
  <1>5. arrivals = 0 => inbox = due
    BY DEF SlotInv
  <1>6. merged \in Seq(Int) /\ Len(merged) = pageSize
    BY <1>2, <1>5, FullPage, Zenon
  <1>7. \A j \in 1..pageSize : j <= 5 * hpp /\ j % 5 = 0 =>
              /\ j \div 5 \in 1..hpp
              /\ hs + j \div 5 \in 1..Len(hot)
              /\ merged[j] = hot[hs + j \div 5]
    <2>1. \A j \in 1..pageSize : HotPlace(j) =>
              /\ j \div 5 \in 1..hpp
              /\ hs + j \div 5 \in 1..Len(hot)
              /\ merged[j] = hot[hs + j \div 5]
      BY <1>2, <1>5, FullPage, Zenon
    <2> QED BY <2>1 DEF HotPlace
  <1>8. \A j \in 1..pageSize : ~(j <= 5 * hpp /\ j % 5 = 0) =>
              \E i \in 1..ipp : start + i \in 1..Len(inbox) /\ merged[j] = inbox[start + i]
    <2>1. \A j \in 1..pageSize : ~HotPlace(j) => OfInbox(merged[j])
      BY <1>2, <1>5, FullPage, Zenon
    <2> QED BY <2>1 DEF HotPlace, OfInbox
  <1>9. /\ start \in Nat /\ page * ipp = start + ipp /\ hs \in Nat /\ page * hpp = hs + hpp
        /\ hpp \in Nat /\ ipp \in Nat /\ pageSize \in Nat
    BY Advance
  <1>10. 5 * hpp <= pageSize
    BY FullWindows
  <1>11. inbox = due /\ Range(hot) \cap (Range(due) \cup Gone) = {}
    BY <1>5 DEF Full
  <1>12. hot \in HotLists /\ inbox \in Seq(Int)
    BY DEF Types, TypeOK
  <1>13. IsInjective(hot) /\ hot \in Seq(Int)
    BY <1>12, HotListIs
  <1>14. DOMAIN inbox = 1..Len(inbox) /\ DOMAIN hot = 1..Len(hot) /\ Len(inbox) \in Nat /\ Len(hot) \in Nat
    BY <1>12, <1>13
  <1> HIDE DEF ipp, hpp, start, hs, merged
  <1>15. /\ \A i \in 1..Len(inbox) : inbox[i] \in Range(due)
         /\ \A i \in 1..Len(hot) : hot[i] \in Range(hot)
    BY <1>11, <1>14 DEF Range
  <1> DEFINE HotPlaces == {j \in 1..pageSize : j <= 5 * hpp /\ j % 5 = 0}
  <1>16. \A j \in 1..pageSize : merged[j] \in Range(hot) <=> j \in HotPlaces
    <2>1. ASSUME NEW j \in HotPlaces PROVE merged[j] \in Range(hot)
      BY <1>7, <1>15
    <2>2. ASSUME NEW j \in 1..pageSize, j \notin HotPlaces PROVE merged[j] \notin Range(hot)
      <3>1. merged[j] \in Range(due)
        BY <1>8, <1>15, <2>2
      <3> QED BY <1>11, <3>1
    <2> QED BY <2>1, <2>2
  \* None of the hot posts is lost as a duplicate.
  <1>17. ASSUME NEW i \in HotPlaces PROVE i \in DOMAIN last'
    <2>1. i \in 1..Len(merged) /\ i \in 1..pageSize /\ i <= 5 * hpp /\ i % 5 = 0
      BY <1>6
    <2>2. ASSUME NEW j \in 1..i - 1 PROVE merged[j] # merged[i]
      <3>1. j \in 1..pageSize /\ j # i /\ j < i
        BY <1>9, <2>1
      <3>2. CASE j \in HotPlaces
        <4>1. /\ merged[j] = hot[hs + j \div 5] /\ hs + j \div 5 \in 1..Len(hot)
              /\ merged[i] = hot[hs + i \div 5] /\ hs + i \div 5 \in 1..Len(hot)
          BY <1>7, <2>1, <3>2
        <4>2. hs + j \div 5 # hs + i \div 5
          <5>1. \A a, b \in Nat : a % 5 = 0 /\ b % 5 = 0 /\ a # b => a \div 5 # b \div 5
            OBVIOUS
          <5>2. i \in Nat /\ j \in Nat /\ j % 5 = 0 /\ i % 5 = 0
            BY <2>1, <3>1, <3>2
          <5>3. i \div 5 # j \div 5 /\ i \div 5 \in Nat /\ j \div 5 \in Nat
            BY <3>1, <5>1, <5>2
          <5> QED BY <1>9, <5>3
        <4> QED BY <1>13, <1>14, <4>1, <4>2 DEF IsInjective
      <3>3. CASE j \notin HotPlaces
        BY <1>16, <2>1, <3>1, <3>3
      <3> QED BY <3>2, <3>3
    <2>3. merged[i] \notin Gone \cup unread'
      BY <1>11, <1>16, <2>1
    <2> QED BY <1>4, <2>1, <2>2, <2>3
  <1>18. {i \in DOMAIN last' : last'[i] \in Range(hot)} = HotPlaces
    BY <1>3, <1>6, <1>16, <1>17
  <1>19. Cardinality(HotPlaces) = hpp
    BY <1>9, <1>10, EveryFifth
  <1> HIDE DEF HotPlaces
  <1>20. ASSUME NEW j \in 1..pageSize PROVE Between(merged[j], page - 1, page)
    <2>1. CASE j \in HotPlaces
      <3>1. /\ j \div 5 \in 1..hpp /\ hs + j \div 5 \in 1..Len(hot)
            /\ merged[j] = hot[hs + j \div 5]
        BY <1>7, <2>1 DEF HotPlaces
      <3>2. hs < hs + j \div 5 /\ hs + j \div 5 <= page * hpp
        <4> DEFINE k == j \div 5
        <4>1. k \in 1..hpp
          BY <3>1
        <4> HIDE DEF k
        <4>2. hs < hs + k /\ hs + k <= page * hpp
          BY <1>9, <4>1
        <4> QED BY <4>2 DEF k
      <3> QED BY <3>1, <3>2 DEF Between, hs, hpp
    <2>2. CASE j \notin HotPlaces
      <3>1. PICK i \in 1..ipp : start + i \in 1..Len(inbox) /\ merged[j] = inbox[start + i]
        BY <1>8, <2>2 DEF HotPlaces
      <3>2. start < start + i /\ start + i <= page * ipp
        BY <1>9, <3>1
      <3> QED BY <3>1, <3>2 DEF Between, start, ipp
    <2> QED BY <2>1, <2>2
  <1>21. \A p \in Range(last') : Between(p, page - 1, page)
    <2>1. ASSUME NEW p \in Range(last') PROVE Between(p, page - 1, page)
      <3>1. PICK i \in DOMAIN last' : last'[i] = p
        BY DEF Range
      <3>2. i \in 1..pageSize /\ p = merged[i]
        BY <1>3, <1>6, <3>1
      <3> QED BY <1>20, <3>2
    <2> QED BY <2>1
  <1> QED BY <1>18, <1>19, <1>21 DEF hpp

LEMMA SlotStep ==
  ASSUME Types, SlotInv, [Next]_vars
  PROVE  SlotInv'
  <1>1. CASE GetTimeline
    <2>1. /\ before' = before \cup Range(last) /\ page' = page + 1
          /\ UNCHANGED <<inbox, hot, pageSize, due, arrivals, reranks>>
      BY <1>1 DEF GetTimeline
    <2>2. page \in Nat /\ page # 0
      BY DEF Types, TypeOK
    <2>3. page' # 1 /\ page' > 1 /\ page' - 1 = page /\ page' - 2 = page - 1
      BY <2>1, <2>2
    <2>4. \A p : /\ Between(p, page - 2, page - 1)' <=> Between(p, page - 1, page)
                 /\ Between(p, 0, page - 2)' <=> Between(p, 0, page - 1)
      <3>1. InboxPerPage(pageSize)' = InboxPerPage(pageSize) /\ HotPerPage(pageSize)' = HotPerPage(pageSize)
        BY <2>1 DEF HotPerPage, InboxPerPage
      <3>2. /\ (page' - 2) * InboxPerPage(pageSize)' = (page - 1) * InboxPerPage(pageSize)
            /\ (page' - 2) * HotPerPage(pageSize)' = (page - 1) * HotPerPage(pageSize)
            /\ (page' - 1) * InboxPerPage(pageSize)' = page * InboxPerPage(pageSize)
            /\ (page' - 1) * HotPerPage(pageSize)' = page * HotPerPage(pageSize)
        BY <2>3, <3>1
      <3>3. \A p : Between(p, page - 2, page - 1)' <=> Between(p, page - 1, page)
        BY <2>1, <3>1, <3>2, Zenon DEF Between
      <3>4. \A p : Between(p, 0, page - 2)' <=> Between(p, 0, page - 1)
        BY <2>1, <3>1, <3>2, Zenon DEF Between
      <3> QED BY <3>3, <3>4
    <2>5. ASSUME Full(page - 1)'
          PROVE  /\ \A p \in Range(last') : Between(p, page - 1, page)
                 /\ \A p \in before' : Between(p, 0, page - 1)
                 /\ Cardinality({i \in DOMAIN last' : last'[i] \in Range(hot)}) = HotPerPage(pageSize)
                 /\ Range(last') \cap before' = {}
      <3>1. failed' = {} /\ unread' = {}
        BY <2>5 DEF Full
      <3>2. failed = {} /\ unread = {}
        <4>1. failed \subseteq failed' /\ unread \subseteq unread'
          BY <1>1 DEF GetTimeline
        <4> QED BY <3>1, <4>1
      <3>3. Full(page)
        BY <2>1, <2>3, <2>5, <3>2 DEF Full, HotPerPage
      <3>4. /\ \A p \in Range(last') : Between(p, page - 1, page)
            /\ Cardinality({i \in DOMAIN last' : last'[i] \in Range(hot)}) = HotPerPage(pageSize)
        BY <1>1, <3>1, <3>3, FullAnswer
      <3>5. \A p \in before' : Between(p, 0, page - 1)
        <4>1. CASE page = 1
          <5>1. before' = {}
            BY <2>1, <4>1 DEF SlotInv, Range
          <5> QED BY <5>1
        <4>2. CASE page > 1
          <5>1. Full(page - 1)
            BY <3>3, <4>2, FullWindows
          <5>2. /\ \A p \in Range(last) : Between(p, page - 2, page - 1)
                /\ \A p \in before : Between(p, 0, page - 2)
            BY <4>2, <5>1 DEF SlotInv
          <5>3. ASSUME NEW p, Between(p, page - 2, page - 1) PROVE Between(p, 0, page - 1)
            BY <5>3, Widen, <2>2, <4>2
          <5>4. ASSUME NEW p, Between(p, 0, page - 2) PROVE Between(p, 0, page - 1)
            BY <5>4, Widen, <2>2, <4>2
          <5> QED BY <2>1, <5>2, <5>3, <5>4
        <4> QED BY <2>2, <4>1, <4>2
      <3>6. Range(last') \cap before' = {}
        BY <3>3, <3>4, <3>5, BetweenApart
      <3> QED BY <3>4, <3>5, <3>6
    <2>6. SlotRatio'
      BY <2>1, <2>5 DEF SlotRatio, HotPerPage
    <2>7. (Full(page - 1) =>
            /\ \A p \in Range(last) : Between(p, page - 2, page - 1)
            /\ \A p \in before : Between(p, 0, page - 2))'
      BY <2>4, <2>5
    <2>8. IsInjective(due)' /\ (arrivals' = 0 => inbox' = due')
      BY <2>1 DEF SlotInv, IsInjective
    <2> QED BY <2>3, <2>6, <2>7, <2>8 DEF SlotInv
  <1>2. CASE Arrive \/ Rerank
    <2>1. /\ UNCHANGED <<page, last, before, due>>
          /\ arrivals' # 0 \/ reranks' # 0
          /\ arrivals' = 0 => inbox' = inbox /\ arrivals = 0
      BY <1>2 DEF Arrive, Rerank, Changed, Types, TypeOK
    <2>2. \A k : ~Full(k)'
      BY <2>1 DEF Full
    <2> QED BY <2>1, <2>2 DEF SlotInv, SlotRatio, IsInjective
  <1>5. CASE Stop \/ UNCHANGED vars
    <2>1. UNCHANGED vars
      BY <1>5 DEF Stop
    <2>2. \A p, a, b : Between(p, a, b)' = Between(p, a, b)
      BY <2>1 DEF vars, Between
    <2>3. \A k : Full(k)' = Full(k)
      BY <2>1 DEF vars, Full
    <2> QED BY <2>1, <2>2, <2>3 DEF vars, SlotInv, SlotRatio, IsInjective
  <1> QED BY <1>1, <1>2, <1>5 DEF Next

\* While both lists last and nothing changes or fails, every page keeps the ratio of hot posts
\* and repeats nothing of the pages before (service.go 157-203).
THEOREM RatioKept == Spec => []SlotRatio
  <1>1. Types /\ SlotInv /\ [Next]_vars => (Types /\ SlotInv)'
    BY TypesStep, SlotStep
  <1>2. SlotInv => SlotRatio
    BY DEF SlotInv
  <1>3. Init => Types /\ SlotInv
    BY InitTypes, InitSlots
  <1> QED BY <1>1, <1>2, <1>3, PTL DEF Spec
=============================================================================
