---------------------------- MODULE ListingProofs ----------------------------
(* What a reader of pages by OFFSET can miss and get twice, for every number  *)
(* of rows, keys and page sizes, and however long the reading takes.          *)
EXTENDS Listing, FiniteSetTheorems, WellFoundedInduction, TLAPS

\* The rows of the list before r, whatever the order of equal stamps.
Ahead(r) == {q \in Matching : at[q] > at[r]}

\* Untied rows among the first n that the reader was due and has not been given.
Lost(n) ==
    {r \in (base \cap Matching) \ Tied : got[r] = 0 /\ Cardinality(Ahead(r)) < n}

\* What the reader has passed over was deleted in front of him; rows that came since
\* the COUNT came between it and the SELECT.
MissInv ==
    /\ \A r \in base : row[r] \in {"live", "gone"} /\ Due(r)
    /\ Reading => Cardinality(Lost(Offset)) <= deleted
    /\ pc = "select" => Cardinality(Matching) <= total + between
    /\ MissBounded

\* The rows of the list with one stamp, those of them that can be listed and those that
\* no longer can.
Class(t) == {r \in Rows : Due(r) /\ row[r] # "new" /\ at[r] = t}
Live(t) == {r \in Matching : at[r] = t}
Gone(t) == {r \in Class(t) : row[r] = "gone"}
Newer(t) == {r \in Matching : at[r] > t}

\* How many of the first n rows have stamp t: those with it that are not beyond n.
Spread(ahead, many, n) ==
    IF n <= ahead THEN 0 ELSE IF n - ahead <= many THEN n - ahead ELSE many

Share(t, n) == Spread(Cardinality(Newer(t)), Cardinality(Live(t)), n)

\* Each copy of a row the reader was given.
Copies(t) == UNION {{r} \X (1..got[r]) : r \in Class(t)}

\* What the reader was given of the rows stamped t beyond their places behind him and
\* the rows that are gone: the repeats he has seen or is about to see.
Excess(t) == Cardinality(Copies(t)) - Share(t, Offset) - Cardinality(Gone(t))

Again == UNION {{t} \X (1..Excess(t)) : t \in 0..MaxTime}

\* The rows given so far are rows of the list, at most once a page.
Given ==
    \A r \in Rows : got[r] <= page /\ (got[r] > 0 => row[r] \in {"live", "gone"} /\ Due(r))

\* Each of them is owed to a row that was added in front.
RepeatInv ==
    /\ Given
    /\ Reading => Cardinality(Again) <= added
    /\ RepeatsBounded

Types ==
    /\ TypeOK
    /\ key \in [Rows -> Keys \cup {None}]
    /\ pc = "off" => page = 0 /\ base = {} /\ got = [r \in Rows |-> 0]
    /\ pc # "off" => page > 0 /\ size > 0

------------------------------------------------------------------------------
(* Types *)

LEMMA Pages ==
  ASSUME NEW s \in Asked
  PROVE  PageSize(s) \in 1..MaxSize
  <1>1. s \in Nat /\ MaxSize \in Nat \ {0} /\ DefaultSize \in Nat \ {0} /\ DefaultSize <= MaxSize
    BY SizesAssumption
  <1> QED BY <1>1 DEF PageSize

LEMMA RowsCard ==
  ASSUME NEW S, S \subseteq Rows
  PROVE  IsFiniteSet(S) /\ Cardinality(S) \in Nat
  BY RowsAssumption, FS_Subset, FS_CardinalityType

LEMMA SubCard ==
  ASSUME NEW S, S \subseteq Rows, NEW T, T \subseteq S
  PROVE  /\ Cardinality(T) <= Cardinality(S)
         /\ Cardinality(T) = Cardinality(S) => T = S
         /\ Cardinality(S \ T) = Cardinality(S) - Cardinality(T)
  <1>1. IsFiniteSet(S) /\ S \cap T = T
    BY RowsCard
  <1>2. Cardinality(S \ T) = Cardinality(S) - Cardinality(S \cap T)
    BY <1>1, FS_Difference, Zenon
  <1>3. Cardinality(S \ T) = Cardinality(S) - Cardinality(T)
    BY <1>1, <1>2
  <1>4. Cardinality(T) <= Cardinality(S) /\ (Cardinality(S) = Cardinality(T) => S = T)
    BY <1>1, FS_Subset
  <1> QED BY <1>3, <1>4

LEMMA InitTypes == Init => Types
  <1> SUFFICES ASSUME Init PROVE Types
    OBVIOUS
  <1>1. MaxTime \in Nat /\ MaxSize \in Nat
    BY SizesAssumption
  <1> QED BY <1>1 DEF Init, Types, TypeOK

LEMMA TableTypes ==
  ASSUME Types, NEW r \in Rows,
         (\E k \in Keys : Insert(r, k)) \/ Commit(r) \/ Abort(r) \/ Delete(r)
  PROVE  Types'
  <1> USE DEF table, walk, history
  <1>1. ASSUME NEW k \in Keys, Insert(r, k) PROVE Types'
    <2>1. /\ row' = [row EXCEPT ![r] = "stamped"] /\ at' = [at EXCEPT ![r] = now]
          /\ key' = [key EXCEPT ![r] = k] /\ UNCHANGED <<now, walk, history>>
      BY <1>1 DEF Insert
    <2>2. row' \in [Rows -> {"new", "stamped", "live", "gone"}]
      BY <2>1 DEF Types, TypeOK
    <2>3. at' \in [Rows -> 0..MaxTime]
      BY <2>1 DEF Types, TypeOK
    <2>4. key' \in [Rows -> Keys \cup {None}] /\ \A q \in Rows : row'[q] = "new" \/ key'[q] \in Keys
      BY <2>1 DEF Types, TypeOK
    <2> QED BY <2>1, <2>2, <2>3, <2>4 DEF Types, TypeOK
  <1>2. CASE Commit(r)
    <2>1. /\ row' = [row EXCEPT ![r] = "live"] /\ row[r] # "new"
          /\ UNCHANGED <<now, at, key, walk, deleted>>
          /\ added' \in {added, added + 1} /\ between' \in {between, between + 1}
      BY <1>2 DEF Commit
    <2>2. row' \in [Rows -> {"new", "stamped", "live", "gone"}]
          /\ \A q \in Rows : row[q] = "new" => row'[q] = "new"
      BY <2>1 DEF Types, TypeOK
    <2>3. added' \in Nat /\ between' \in Nat
      BY <2>1 DEF Types, TypeOK
    <2> QED BY <2>1, <2>2, <2>3 DEF Types, TypeOK
  <1>3. CASE Abort(r)
    <2>1. /\ row' = [row EXCEPT ![r] = "gone"] /\ row[r] # "new"
          /\ UNCHANGED <<now, at, key, walk, history>>
      BY <1>3 DEF Abort
    <2>2. row' \in [Rows -> {"new", "stamped", "live", "gone"}]
          /\ \A q \in Rows : row[q] = "new" => row'[q] = "new"
      BY <2>1 DEF Types, TypeOK
    <2> QED BY <2>1, <2>2 DEF Types, TypeOK
  <1>4. CASE Delete(r)
    <2>1. /\ row' = [row EXCEPT ![r] = "gone"] /\ row[r] # "new"
          /\ UNCHANGED <<now, at, key, walk, added, between>>
          /\ deleted' \in {deleted, deleted + 1}
      BY <1>4 DEF Delete
    <2>2. row' \in [Rows -> {"new", "stamped", "live", "gone"}]
          /\ \A q \in Rows : row[q] = "new" => row'[q] = "new"
      BY <2>1 DEF Types, TypeOK
    <2>3. deleted' \in Nat
      BY <2>1 DEF Types, TypeOK
    <2> QED BY <2>1, <2>2, <2>3 DEF Types, TypeOK
  <1> QED BY <1>1, <1>2, <1>3, <1>4

LEMMA ReaderTypes ==
  ASSUME Types, Tick \/ Start \/ Count \/ Select \/ UNCHANGED vars
  PROVE  Types'
  <1> USE DEF table, walk, history
  <1>1. CASE Tick
    <2>1. now' \in 0..MaxTime /\ UNCHANGED <<table, walk, history>>
      BY <1>1, SizesAssumption DEF Tick, Types, TypeOK
    <2> QED BY <2>1 DEF Types, TypeOK
  <1>2. CASE Start
    <2>1. /\ pc' = "count" /\ page' = 1 /\ filter' \in Keys \cup {None}
          /\ size' \in 1..MaxSize /\ base' \subseteq Rows
          /\ UNCHANGED <<now, table, total, got, history>>
      BY <1>2, Pages DEF Start
    <2>2. MaxSize \in Nat
      BY SizesAssumption
    <2> QED BY <2>1, <2>2 DEF Types, TypeOK
  <1>3. CASE Count
    <2>1. Cardinality(Matching) \in Nat
      BY RowsCard DEF Matching
    <2> QED BY <1>3, <2>1 DEF Count, Types, TypeOK
  <1>4. CASE Select
    <2>1. got' \in [Rows -> Nat]
      BY <1>4 DEF Select, Types, TypeOK
    <2>2. pc = "select" /\ pc' \in {"done", "count"} /\ page' = page + 1
          /\ UNCHANGED <<now, table, filter, size, byTotal, total, base, history>>
      BY <1>4 DEF Select
    <2> QED BY <2>1, <2>2 DEF Types, TypeOK
  <1>5. CASE UNCHANGED vars
    BY <1>5 DEF vars, Types, TypeOK
  <1> QED BY <1>1, <1>2, <1>3, <1>4, <1>5

LEMMA TypesStep ==
  ASSUME Types, [Next]_vars
  PROVE  Types'
  BY TableTypes, ReaderTypes DEF Next

\* Tables, reader and counts of the paged lists keep their types (interaction/repo.go
\* 126-160, feed/repo.go 55-90).
THEOREM TypeCorrect == Spec => []TypeOK
  <1>1. Types => TypeOK
    BY DEF Types
  <1> QED BY <1>1, InitTypes, TypesStep, PTL DEF Spec

------------------------------------------------------------------------------
(* The order of the list *)

LEMMA Windows ==
  ASSUME Types, NEW n \in Nat, NEW S \in Firsts(n)
  PROVE  /\ S \subseteq Matching /\ Matching \subseteq Rows
         /\ Cardinality(S) = (IF n < Cardinality(Matching) THEN n ELSE Cardinality(Matching))
         /\ \A r \in S, q \in Matching \ S : at[r] >= at[q]
  BY DEF Firsts, Matching

\* A row with its place among the first n has fewer than n rows before it, and an
\* untied row with fewer before it has its place there.
LEMMA PlaceBounds ==
  ASSUME Types, NEW n \in Nat, NEW S \in Firsts(n), NEW r \in Matching
  PROVE  /\ r \in S => Cardinality(Ahead(r)) < n
         /\ r \notin Tied /\ Cardinality(Ahead(r)) < n => r \in S
  <1>1. /\ S \subseteq Matching /\ Matching \subseteq Rows /\ Ahead(r) \subseteq Matching
        /\ Cardinality(S) = (IF n < Cardinality(Matching) THEN n ELSE Cardinality(Matching))
        /\ \A s \in S, q \in Matching \ S : at[s] >= at[q]
    BY Windows DEF Ahead
  <1>2. \A q \in Matching : at[q] \in Int
    BY <1>1 DEF Types, TypeOK
  <1>3. /\ Cardinality(S) \in Nat /\ Cardinality(Ahead(r)) \in Nat
        /\ Cardinality(Matching) \in Nat
    BY <1>1, RowsCard
  <1>4. ASSUME r \in S PROVE Cardinality(Ahead(r)) < n
    <2>1. Ahead(r) \subseteq S \ {r}
      BY <1>1, <1>2, <1>4 DEF Ahead
    <2>2. Cardinality(Ahead(r)) <= Cardinality(S)
      BY <1>1, <2>1, SubCard
    <2>3. Cardinality(Ahead(r)) # Cardinality(S)
      BY <1>1, <1>4, <2>1, SubCard
    <2> QED BY <1>1, <1>3, <2>2, <2>3
  <1>5. ASSUME r \notin Tied, Cardinality(Ahead(r)) < n, r \notin S PROVE FALSE
    <2>1. \A s \in S : at[s] # at[r]
      <3>1. ASSUME NEW s \in S, at[s] = at[r] PROVE FALSE
        <4>1. s \in Rows \ {r} /\ Due(s) /\ row[s] # "new" /\ r \in Rows /\ Due(r) /\ row[r] # "new"
          BY <1>1, <1>5, <3>1 DEF Matching
        <4> QED BY <1>5, <3>1, <4>1 DEF Tied
      <3> QED BY <3>1
    <2>2. S \subseteq Ahead(r)
      BY <1>1, <1>2, <1>5, <2>1 DEF Ahead
    <2>3. Cardinality(S) <= Cardinality(Ahead(r))
      BY <1>1, <2>2, SubCard
    <2>4. Cardinality(S) = Cardinality(Matching)
      BY <1>1, <1>3, <1>5, <2>3
    <2>5. S = Matching
      BY <1>1, <2>4, SubCard
    <2> QED BY <1>5, <2>5
  <1> QED BY <1>4, <1>5

\* No two untied rows have as many rows before them.
LEMMA PlacesDiffer ==
  ASSUME Types, NEW q \in Matching \ Tied, NEW r \in Matching \ Tied, q # r
  PROVE  Cardinality(Ahead(q)) # Cardinality(Ahead(r))
  <1>1. Matching \subseteq Rows /\ \A s \in Matching : at[s] \in Int
    BY DEF Matching, Types, TypeOK
  <1>2. at[q] # at[r]
    BY DEF Tied, Matching
  <1>3. ASSUME NEW a \in Matching, NEW b \in Matching, at[a] > at[b]
        PROVE  Cardinality(Ahead(a)) # Cardinality(Ahead(b))
    <2>1. Ahead(a) \subseteq Ahead(b) /\ a \in Ahead(b) /\ a \notin Ahead(a) /\ Ahead(b) \subseteq Rows
      BY <1>1, <1>3 DEF Ahead
    <2> QED BY <2>1, SubCard
  <1> QED BY <1>1, <1>2, <1>3

------------------------------------------------------------------------------
(* What a step of the table does to the list *)

TableStep(r) == (\E k \in Keys : Insert(r, k)) \/ Commit(r) \/ Abort(r) \/ Delete(r)

LEMMA TableKeeps ==
  ASSUME Types, NEW r \in Rows, TableStep(r)
  PROVE  /\ UNCHANGED walk /\ Types' /\ UNCHANGED <<page, size, got, base, pc, total, byTotal, filter>>
         /\ \A q \in Rows : row[q] # "new" =>
              row'[q] # "new" /\ at'[q] = at[q] /\ Due(q)' = Due(q)
         /\ \A q \in Rows : row[q] \in {"live", "gone"} => row'[q] \in {"live", "gone"}
         /\ Tied \subseteq Tied' /\ Tied' \subseteq Rows
         /\ deleted' \in Nat /\ between' \in Nat /\ added' \in Nat
         /\ ~Reading => UNCHANGED <<deleted, between, added>>
  <1> USE DEF table, history
  <1>1. UNCHANGED walk /\ Types'
    BY TableTypes DEF TableStep, Insert, Commit, Abort, Delete
  <1>2. UNCHANGED <<page, size, got, base, pc, total, byTotal, filter>>
    BY <1>1 DEF walk
  <1>3. \A q \in Rows : row[q] # "new" => row'[q] # "new" /\ at'[q] = at[q] /\ key'[q] = key[q]
    BY DEF TableStep, Insert, Commit, Abort, Delete, Types, TypeOK
  <1>4. \A q \in Rows : row[q] # "new" => Due(q)' = Due(q)
    BY <1>2, <1>3 DEF Due
  <1>5. \A q \in Rows : row[q] \in {"live", "gone"} => row'[q] \in {"live", "gone"}
    BY DEF TableStep, Insert, Commit, Abort, Delete, Types, TypeOK
  <1>6. Tied \subseteq Tied'
    BY <1>3, <1>4 DEF Tied
  <1>7. ~Reading => UNCHANGED <<deleted, between, added>>
    BY DEF TableStep, Insert, Commit, Abort, Delete, Reading
  <1>8. deleted' \in Nat /\ between' \in Nat /\ added' \in Nat
    BY <1>1 DEF Types, TypeOK
  <1> QED BY <1>1, <1>2, <1>3, <1>4, <1>5, <1>6, <1>7, <1>8 DEF Tied

LEMMA MatchingStep ==
  ASSUME Types, NEW r \in Rows
  PROVE  /\ (\E k \in Keys : Insert(r, k)) \/ Abort(r) => Matching' = Matching
         /\ Commit(r) => Matching' = Matching \cup {q \in {r} : Due(r)} /\ r \notin Matching
         /\ Delete(r) => Matching' = Matching \ {r} /\ (Due(r) <=> r \in Matching)
  <1> USE DEF table, walk, history
  <1>1. ASSUME NEW k \in Keys, Insert(r, k) PROVE Matching' = Matching
    BY <1>1 DEF Insert, Matching, Due, Types, TypeOK
  <1>2. ASSUME Abort(r) PROVE Matching' = Matching
    BY <1>2 DEF Abort, Matching, Due, Types, TypeOK
  <1>3. ASSUME Commit(r) PROVE Matching' = Matching \cup {q \in {r} : Due(r)} /\ r \notin Matching
    BY <1>3 DEF Commit, Matching, Due, Types, TypeOK
  <1>4. ASSUME Delete(r) PROVE Matching' = Matching \ {r} /\ (Due(r) <=> r \in Matching)
    BY <1>4 DEF Delete, Matching, Due, Types, TypeOK
  <1> QED BY <1>1, <1>2, <1>3, <1>4

------------------------------------------------------------------------------
(* What the reader misses *)

\* Between the pages a row can only come to be passed over because one before it is
\* deleted, one for each.
LEMMA LostStep ==
  ASSUME Types, \A q \in base : row[q] \in {"live", "gone"} /\ Due(q),
         NEW r \in Rows, TableStep(r), Reading,
         Cardinality(Lost(Offset)) <= deleted
  PROVE  (Cardinality(Lost(Offset)) <= deleted)'
  <1>0. /\ UNCHANGED <<page, size, got, base, pc>> /\ Tied \subseteq Tied'
        /\ \A q \in Rows : row[q] # "new" => at'[q] = at[q]
        /\ Offset' = Offset /\ Offset \in Nat /\ deleted \in Nat /\ deleted' \in Nat
        /\ Matching \subseteq Rows /\ Matching' \subseteq Rows
        /\ \A q \in Matching : at[q] \in Int
    <2>1. Offset \in Nat
      BY DEF Offset, Types, TypeOK, Reading
    <2> QED BY <2>1, TableKeeps DEF Offset, Matching, Types, TypeOK
  <1>1. Lost(Offset) \subseteq Rows /\ Lost(Offset)' \subseteq Rows
    BY <1>0 DEF Lost
  <1>2. ASSUME Lost(Offset)' \subseteq Lost(Offset), deleted <= deleted'
        PROVE  (Cardinality(Lost(Offset)) <= deleted)'
    <2>1. Cardinality(Lost(Offset)') <= Cardinality(Lost(Offset))
      BY <1>1, <1>2, SubCard
    <2>2. Cardinality(Lost(Offset)) \in Nat /\ Cardinality(Lost(Offset)') \in Nat
      BY <1>1, RowsCard
    <2> QED BY <1>0, <1>2, <2>1, <2>2
  <1>3. \A q \in Matching : Ahead(q) \subseteq Rows
    BY <1>0 DEF Ahead
  <1>4. CASE (\E k \in Keys : Insert(r, k)) \/ Abort(r)
    <2>1. Matching' = Matching /\ deleted' = deleted
      BY <1>4, MatchingStep DEF Insert, Abort, history
    <2>2. \A q \in Matching : Ahead(q)' = Ahead(q)
      BY <1>0, <2>1 DEF Ahead, Matching
    <2>3. Lost(Offset)' \subseteq Lost(Offset)
      BY <1>0, <2>1, <2>2 DEF Lost
    <2> QED BY <1>0, <1>2, <2>1, <2>3
  <1>5. CASE Commit(r)
    <2>1. Matching' = Matching \cup {q \in {r} : Due(r)} /\ r \notin Matching /\ deleted' = deleted
          /\ at' = at
      BY <1>5, MatchingStep DEF Commit
    <2>2. r \notin base
      BY <1>5 DEF Commit
    <2>3. ASSUME NEW q \in Lost(Offset)' PROVE q \in Lost(Offset)
      <3>1. q \in base \cap Matching /\ q \notin Tied /\ got[q] = 0 /\ Cardinality(Ahead(q)') < Offset
        BY <1>0, <2>1, <2>2, <2>3 DEF Lost
      <3>2. Ahead(q) \subseteq Ahead(q)' /\ Ahead(q)' \subseteq Rows
        BY <1>0, <2>1 DEF Ahead
      <3>3. Cardinality(Ahead(q)) <= Cardinality(Ahead(q)')
        BY <3>2, SubCard
      <3>4. Cardinality(Ahead(q)) \in Nat /\ Cardinality(Ahead(q)') \in Nat
        BY <3>2, RowsCard
      <3> QED BY <1>0, <3>1, <3>3, <3>4 DEF Lost
    <2> QED BY <1>0, <1>2, <2>1, <2>3
  <1>6. CASE Delete(r)
    <2>1. Matching' = Matching \ {r} /\ (Due(r) <=> r \in Matching) /\ at' = at
          /\ deleted' = IF Due(r) THEN deleted + 1 ELSE deleted
      BY <1>6, MatchingStep DEF Delete
    <2>2. \A q \in Matching : Ahead(q)' = Ahead(q) \ {r}
      BY <2>1 DEF Ahead
    <2>3. CASE ~Due(r)
      <3>1. \A q \in Matching : Ahead(q)' = Ahead(q)
        BY <2>1, <2>2, <2>3 DEF Ahead
      <3>2. Lost(Offset)' \subseteq Lost(Offset)
        BY <1>0, <2>1, <3>1 DEF Lost
      <3> QED BY <1>0, <1>2, <2>1, <2>3, <3>2
    <2>4. CASE Due(r)
      <3> DEFINE Fresh == Lost(Offset)' \ Lost(Offset)
      <3>1. ASSUME NEW q \in Fresh
            PROVE  q \in Matching \ Tied /\ Cardinality(Ahead(q)) = Offset
        <4>1. q \in base \cap Matching /\ q \notin Tied /\ got[q] = 0
              /\ Cardinality(Ahead(q)') < Offset
          BY <1>0, <2>1, <3>1 DEF Lost
        <4>2. Ahead(q)' = Ahead(q) \ {r} /\ IsFiniteSet(Ahead(q)) /\ Cardinality(Ahead(q)) \in Nat
          BY <1>3, <2>2, <4>1, RowsCard
        <4>3. Cardinality(Ahead(q)) <= Cardinality(Ahead(q)') + 1
          <5> DEFINE A == Ahead(q)
          <5>1. Ahead(q)' = A \ {r} /\ IsFiniteSet(A) /\ Cardinality(A) \in Nat
            BY <4>2
          <5> HIDE DEF A
          <5>2. Cardinality(A \ {r}) = IF r \in A THEN Cardinality(A) - 1 ELSE Cardinality(A)
            BY <5>1, FS_RemoveElement
          <5>3. Cardinality(A) <= Cardinality(A \ {r}) + 1
            BY <5>1, <5>2
          <5> QED BY <5>1, <5>3 DEF A
        <4>4. ~(Cardinality(Ahead(q)) < Offset)
          BY <3>1, <4>1 DEF Lost
        <4>5. Cardinality(Ahead(q)') \in Nat
          BY <1>3, <4>1, <4>2, RowsCard
        <4> QED BY <1>0, <4>1, <4>2, <4>3, <4>4, <4>5
      <3>2. \A p, q \in Fresh : p = q
        BY <3>1, PlacesDiffer
      <3>3. PICK x : Lost(Offset)' \subseteq Lost(Offset) \cup {x}
        BY <3>2
      <3>4. IsFiniteSet(Lost(Offset)) /\ Cardinality(Lost(Offset)) \in Nat
            /\ IsFiniteSet(Lost(Offset)') /\ Cardinality(Lost(Offset)') \in Nat
        BY <1>1, RowsCard
      <3>5. IsFiniteSet(Lost(Offset) \cup {x})
            /\ Cardinality(Lost(Offset) \cup {x}) <= Cardinality(Lost(Offset)) + 1
        <4> DEFINE A == Lost(Offset)
        <4>1. IsFiniteSet(A) /\ Cardinality(A) \in Nat
          BY <3>4
        <4> HIDE DEF A
        <4>2. IsFiniteSet(A \cup {x}) /\ Cardinality(A \cup {x}) <= Cardinality(A) + 1
          <5>1. /\ IsFiniteSet(A \cup {x})
                /\ Cardinality(A \cup {x}) = IF x \in A THEN Cardinality(A) ELSE Cardinality(A) + 1
            BY <4>1, FS_AddElement, Zenon
          <5> QED BY <4>1, <5>1
        <4> QED BY <4>2 DEF A
      <3>6. Cardinality(Lost(Offset)') <= Cardinality(Lost(Offset) \cup {x})
        BY <3>3, <3>5, FS_Subset
      <3>7. Cardinality(Lost(Offset) \cup {x}) \in Nat
        BY <3>5, FS_CardinalityType
      <3>8. deleted' = deleted + 1
        BY <2>1, <2>4
      <3> QED BY <1>0, <3>4, <3>5, <3>6, <3>7, <3>8
    <2> QED BY <2>3, <2>4
  <1> QED BY <1>4, <1>5, <1>6 DEF TableStep

LEMMA MissTable ==
  ASSUME Types, MissInv, NEW r \in Rows, TableStep(r)
  PROVE  MissInv'
  <1>0. /\ UNCHANGED <<got, base, pc, total, byTotal>> /\ Tied \subseteq Tied' /\ Tied' \subseteq Rows
        /\ \A q \in Rows : row[q] # "new" => Due(q)' = Due(q)
        /\ \A q \in Rows : row[q] \in {"live", "gone"} => row'[q] \in {"live", "gone"}
        /\ ~Reading => UNCHANGED <<deleted, between>>
    BY TableKeeps
  <1>1. \A q \in base' : row'[q] \in {"live", "gone"} /\ Due(q)'
    BY <1>0 DEF MissInv, Types, TypeOK
  <1>2. Reading' => (Cardinality(Lost(Offset)) <= deleted)'
    BY <1>0, LostStep DEF Reading, MissInv
  <1>3. pc' = "select" => Cardinality(Matching') <= total' + between'
    <2> SUFFICES ASSUME pc = "select" PROVE Cardinality(Matching') <= total + between'
      BY <1>0
    <2>1. /\ Cardinality(Matching) <= total + between /\ total \in Nat /\ between \in Nat
          /\ Matching \subseteq Rows /\ IsFiniteSet(Matching) /\ Cardinality(Matching) \in Nat
      BY RowsCard DEF MissInv, Types, TypeOK, Matching
    <2>2. CASE (\E k \in Keys : Insert(r, k)) \/ Abort(r)
      BY <2>1, <2>2, MatchingStep DEF Insert, Abort, history
    <2>3. CASE Commit(r)
      <3>1. CASE Due(r)
        <4>1. Matching' = Matching \cup {r} /\ between' = between + 1 /\ r \notin Matching
          BY <2>3, <3>1, MatchingStep DEF Commit
        <4>2. Cardinality(Matching') = Cardinality(Matching) + 1
          BY <2>1, <4>1, FS_AddElement
        <4> QED BY <2>1, <4>1, <4>2
      <3>2. CASE ~Due(r)
        BY <2>1, <2>3, <3>2, MatchingStep DEF Commit
      <3> QED BY <3>1, <3>2
    <2>4. CASE Delete(r)
      <3>1. Matching' \subseteq Matching /\ between' = between
        BY <2>4, MatchingStep DEF Delete
      <3>2. Cardinality(Matching') <= Cardinality(Matching) /\ Cardinality(Matching') \in Nat
        BY <2>1, <3>1, SubCard, RowsCard
      <3> QED BY <2>1, <3>1, <3>2
    <2> QED BY <2>2, <2>3, <2>4 DEF TableStep
  <1>4. MissBounded'
    <2> SUFFICES ASSUME pc = "done"
                 PROVE  Cardinality(Missed') <= deleted' + Cardinality(Tied')
                                                + IF byTotal' THEN between' ELSE 0
      BY <1>0 DEF MissBounded
    <2>1. UNCHANGED <<deleted, between, byTotal>>
      BY <1>0 DEF Reading
    <2>2. Missed' \subseteq Missed /\ Missed \subseteq Rows
      <3>1. \A q \in base : q \in Matching' => q \in Matching
        BY <1>0, MatchingStep DEF MissInv, TableStep, Commit
      <3> QED BY <1>0, <3>1 DEF Missed, Matching
    <2>3. Cardinality(Missed') <= Cardinality(Missed) /\ Cardinality(Tied) <= Cardinality(Tied')
      BY <1>0, <2>2, SubCard
    <2>4. /\ Cardinality(Missed') \in Nat /\ Cardinality(Missed) \in Nat
          /\ Cardinality(Tied) \in Nat /\ Cardinality(Tied') \in Nat
          /\ deleted \in Nat /\ between \in Nat
      BY <1>0, <2>2, RowsCard DEF Types, TypeOK
    <2>5. Cardinality(Missed) <= deleted + Cardinality(Tied) + IF byTotal THEN between ELSE 0
      BY DEF MissInv, MissBounded
    <2> QED BY <2>1, <2>3, <2>4, <2>5
  <1> QED BY <1>0, <1>1, <1>2, <1>3, <1>4 DEF MissInv

\* A page passes over no untied row: those between its offset and its end are on it.
LEMMA MissSelect ==
  ASSUME Types, MissInv, Select
  PROVE  MissInv'
  <1>1. PICK items \in Page :
          /\ got' = [r \in Rows |-> IF r \in items THEN got[r] + 1 ELSE got[r]]
          /\ pc' = IF Last(items) THEN "done" ELSE "count"
    BY DEF Select
  <1>2. PICK S \in Firsts(Offset), T \in Firsts(Offset + size) : S \subseteq T /\ items = T \ S
    BY <1>1 DEF Page
  <1>3. /\ pc = "select" /\ page' = page + 1
        /\ UNCHANGED <<now, table, filter, size, byTotal, total, base, history>>
    BY DEF Select
  <1>4. /\ Offset \in Nat /\ size \in Nat \ {0} /\ page * size = Offset + size /\ Offset' = Offset + size
        /\ page * size \in Nat
    BY <1>3 DEF Offset, Types, TypeOK
  <1>5. /\ Matching' = Matching /\ Tied' = Tied /\ \A r : Ahead(r)' = Ahead(r)
        /\ \A r : Due(r)' = Due(r)
    BY <1>3 DEF Matching, Tied, Ahead, Due, table
  <1>6. /\ Matching \subseteq Rows /\ Tied \subseteq Rows /\ base \subseteq Rows
        /\ {deleted, between, total} \subseteq Nat
    BY DEF Matching, Tied, Types, TypeOK
  <1>7. \A r \in Rows : got'[r] = 0 => got[r] = 0 /\ r \notin items
    BY <1>1 DEF Types, TypeOK
  <1>8. S \subseteq Matching /\ T \subseteq Matching
    BY <1>2, <1>4, Windows
  \* A row on the page or before it.
  <1>9. ASSUME NEW r \in base \cap Matching, r \notin Tied, got'[r] = 0, r \in T
        PROVE  r \in Lost(Offset)
    <2>1. r \in S /\ got[r] = 0
      BY <1>2, <1>6, <1>7, <1>9
    <2>2. Cardinality(Ahead(r)) < Offset
      BY <1>2, <1>4, <2>1, PlaceBounds
    <2> QED BY <1>9, <2>1, <2>2 DEF Lost
  <1>10. Cardinality(Lost(Offset)) <= deleted /\ Lost(Offset) \subseteq Rows
    BY <1>3, <1>6 DEF MissInv, Reading, Lost
  <1>11. (Cardinality(Lost(Offset)) <= deleted)'
    <2>1. ASSUME NEW r \in Lost(Offset)' PROVE r \in Lost(Offset)
      <3>1. r \in base \cap Matching /\ r \notin Tied /\ got'[r] = 0
            /\ Cardinality(Ahead(r)) < Offset + size
        BY <1>3, <1>4, <1>5, <2>1 DEF Lost
      <3>2. r \in T
        BY <1>2, <1>4, <3>1, PlaceBounds
      <3> QED BY <1>9, <3>1, <3>2
    <2>2. Cardinality(Lost(Offset)') <= Cardinality(Lost(Offset))
          /\ Cardinality(Lost(Offset)') \in Nat /\ Cardinality(Lost(Offset)) \in Nat
      BY <1>10, <2>1, SubCard, RowsCard
    <2> QED BY <1>3, <1>6, <1>10, <2>2 DEF history
  <1>12. MissBounded'
    <2> SUFFICES ASSUME Last(items)
                 PROVE  Cardinality(Missed') <= deleted + Cardinality(Tied)
                                                + IF byTotal THEN between ELSE 0
      BY <1>1, <1>3, <1>5 DEF MissBounded, history
    <2>1. Missed' = {r \in base \cap Matching : got'[r] = 0}
      BY <1>3, <1>5 DEF Missed
    <2> DEFINE Rest == Matching \ T
    <2>2. Missed' \subseteq (Lost(Offset) \cup Tied) \cup Rest
      BY <1>9, <2>1
    <2>3. /\ IsFiniteSet(Lost(Offset)) /\ IsFiniteSet(Tied) /\ IsFiniteSet(Rest)
          /\ Cardinality(Lost(Offset)) \in Nat /\ Cardinality(Tied) \in Nat
          /\ Cardinality(Rest) \in Nat
      BY <1>6, <1>10, RowsCard
    <2>4. Cardinality(Missed') <= Cardinality(Lost(Offset)) + Cardinality(Tied) + Cardinality(Rest)
      <3> DEFINE A == Lost(Offset) \cup Tied
      <3>1. /\ A \subseteq Rows /\ IsFiniteSet(A) /\ Cardinality(A) \in Nat
            /\ A \cup Rest \subseteq Rows /\ Cardinality(A \cup Rest) \in Nat
            /\ Cardinality(Lost(Offset) \cap Tied) \in Nat /\ Cardinality(A \cap Rest) \in Nat
            /\ Cardinality(Missed') \in Nat
        BY <1>6, <1>10, <2>2, RowsCard
      <3>2. Cardinality(A) = Cardinality(Lost(Offset)) + Cardinality(Tied) - Cardinality(Lost(Offset) \cap Tied)
        BY <2>3, FS_Union
      <3>3. Cardinality(A \cup Rest) = Cardinality(A) + Cardinality(Rest) - Cardinality(A \cap Rest)
        BY <2>3, <3>1, FS_Union
      <3>4. Cardinality(Missed') <= Cardinality(A \cup Rest)
        BY <2>2, <3>1, SubCard
      <3> HIDE DEF A, Rest
      <3> QED BY <2>3, <3>1, <3>2, <3>3, <3>4
    <2>5. Cardinality(Rest) <= IF byTotal THEN between ELSE 0
      <3>1. /\ Cardinality(Rest) = Cardinality(Matching) - Cardinality(T)
            /\ Cardinality(Matching) \in Nat /\ Cardinality(T) \in Nat /\ Cardinality(S) \in Nat
        BY <1>6, <1>8, SubCard, RowsCard
      <3>2. /\ Cardinality(T) = IF Offset + size < Cardinality(Matching) THEN Offset + size
                                ELSE Cardinality(Matching)
            /\ Cardinality(S) = IF Offset < Cardinality(Matching) THEN Offset
                                ELSE Cardinality(Matching)
        BY <1>2, <1>4, Windows
      <3> HIDE DEF Rest
      <3>3. CASE byTotal
        <4>1. page * size >= total /\ Cardinality(Matching) <= total + between
          BY <1>3, <3>3 DEF Last, MissInv
        <4>2. Offset + size >= total
          BY <1>4, <4>1
        <4> QED BY <1>4, <1>6, <3>1, <3>2, <3>3, <4>1, <4>2
      <3>4. CASE ~byTotal
        <4>1. S = T
          BY <1>2, <3>4 DEF Last
        <4> QED BY <1>4, <3>1, <3>2, <3>4, <4>1
      <3> QED BY <3>3, <3>4
    <2>6. Cardinality(Missed') \in Nat
      BY <1>6, <2>1, RowsCard
    <2> HIDE DEF Rest
    <2> QED BY <1>6, <1>10, <2>3, <2>4, <2>5, <2>6
  <1>13. pc' # "select"
    BY <1>1
  <1>14. \A q \in base' : row'[q] \in {"live", "gone"} /\ Due(q)'
    BY <1>3, <1>5 DEF MissInv, table
  <1> QED BY <1>11, <1>12, <1>13, <1>14 DEF MissInv

LEMMA MissStep ==
  ASSUME Types, MissInv, [Next]_vars
  PROVE  MissInv'
  <1>1. ASSUME NEW r \in Rows, TableStep(r) PROVE MissInv'
    BY <1>1, MissTable
  <1>2. ASSUME UNCHANGED <<table, walk, history>> PROVE MissInv'
    <2>1. /\ Matching' = Matching /\ Lost(Offset)' = Lost(Offset) /\ Missed' = Missed /\ Tied' = Tied
          /\ \A r : Due(r)' = Due(r)
      BY <1>2 DEF table, walk, history, Matching, Lost, Missed, Tied, Ahead, Due, Offset
    <2> QED BY <1>2, <2>1 DEF table, walk, history, MissInv, MissBounded, Reading
  <1>3. CASE Start
    <2>1. /\ pc' = "count" /\ page' = 1 /\ deleted' = deleted /\ row' = row /\ key' = key
          /\ base' = {r \in Rows : row[r] = "live" /\ (filter' = None \/ key[r] = filter')}
          /\ size' \in Nat
      <3>1. size' \in 1..MaxSize /\ MaxSize \in Nat
        BY <1>3, Pages, SizesAssumption DEF Start
      <3> QED BY <1>3, <3>1 DEF Start, table, history
    <2>2. Offset' = 0
      BY <2>1 DEF Offset
    <2>3. Lost(Offset)' = {}
      <3>1. \A r : Cardinality(Ahead(r)') \in Nat
        BY RowsCard DEF Ahead, Matching
      <3>2. \A r : ~(Cardinality(Ahead(r)') < 0)
        BY <3>1
      <3> QED BY <2>2, <3>2 DEF Lost
    <2>4. Cardinality(Lost(Offset)') = 0 /\ deleted \in Nat
      BY <2>3, FS_EmptySet DEF Types, TypeOK
    <2>5. \A q \in base' : row'[q] \in {"live", "gone"} /\ Due(q)'
      BY <2>1 DEF Due
    <2> QED BY <2>1, <2>4, <2>5 DEF MissInv, MissBounded
  <1>4. CASE Count
    <2>1. /\ pc = "count" /\ pc' = "select" /\ total' = Cardinality(Matching)
          /\ UNCHANGED <<now, table, filter, size, byTotal, page, got, base, history>>
      BY <1>4 DEF Count
    <2>2. /\ Matching' = Matching /\ Lost(Offset)' = Lost(Offset)
          /\ \A r : Due(r)' = Due(r)
      BY <2>1 DEF table, Matching, Lost, Tied, Ahead, Due, Offset
    <2>3. Cardinality(Matching) \in Nat /\ between \in Nat
      BY RowsCard DEF Matching, Types, TypeOK
    <2> QED BY <2>1, <2>2, <2>3 DEF MissInv, MissBounded, Reading, table, history
  <1>5. CASE Select
    BY <1>5, MissSelect
  <1> QED BY <1>1, <1>2, <1>3, <1>4, <1>5 DEF Next, Tick, vars, TableStep

\* Of the rows that stay, a reader who pages to the end misses no more than were
\* deleted meanwhile or share their stamp, and, if he stops at the total, those that
\* came between a COUNT and its SELECT (feed/repo.go 55-90, interaction/repo.go 126-160).
THEOREM MissesBounded == Spec => []MissBounded
  <1>1. Init => MissInv
    BY DEF Init, MissInv, MissBounded, Reading
  <1>2. Types /\ MissInv /\ [Next]_vars => (Types /\ MissInv)'
    BY TypesStep, MissStep
  <1>3. MissInv => MissBounded
    BY DEF MissInv
  <1> QED BY <1>1, <1>2, <1>3, InitTypes, PTL DEF Spec

------------------------------------------------------------------------------
(* Places and copies, counted by stamp *)

LEMMA Interval ==
  ASSUME NEW a \in Int, NEW b \in Int
  PROVE  /\ IsFiniteSet(a..b)
         /\ Cardinality(a..b) = IF a <= b THEN b - a + 1 ELSE 0
  BY FS_Interval

LEMMA Apart ==
  ASSUME NEW A, IsFiniteSet(A), NEW B, IsFiniteSet(B), A \cap B = {}
  PROVE  IsFiniteSet(A \cup B) /\ Cardinality(A \cup B) = Cardinality(A) + Cardinality(B)
  <1>1. /\ IsFiniteSet(A \cup B)
        /\ Cardinality(A \cup B) = Cardinality(A) + Cardinality(B) - Cardinality(A \cap B)
    BY FS_Union
  <1>2. Cardinality(A \cap B) = 0
    BY FS_EmptySet
  <1>3. Cardinality(A) \in Nat /\ Cardinality(B) \in Nat
    BY FS_CardinalityType
  <1> QED BY <1>1, <1>2, <1>3

LEMMA Pairs ==
  ASSUME NEW A, IsFiniteSet(A), NEW f
  PROVE  /\ IsFiniteSet({<<r, f[r]>> : r \in A})
         /\ Cardinality({<<r, f[r]>> : r \in A}) = Cardinality(A)
  <1> DEFINE B == {<<r, f[r]>> : r \in A}
             g == [r \in A |-> <<r, f[r]>>]
  <1>1. g \in Bijection(A, B)
    BY DEF Bijection, Injection, Surjection, IsInjective
  <1>2. ExistsBijection(A, B)
    BY <1>1 DEF ExistsBijection
  <1> HIDE DEF B
  <1>3. IsFiniteSet(B) /\ Cardinality(B) = Cardinality(A)
    BY <1>2, FS_Bijection
  <1> QED BY <1>3 DEF B

LEMMA CopiesOf ==
  ASSUME Types, Given
  PROVE  /\ \A t : \A p : p \in Copies(t) <=> \E r \in Class(t) : \E i \in 1..got[r] : p = <<r, i>>
         /\ \A t : IsFiniteSet(Copies(t)) /\ Cardinality(Copies(t)) \in Nat
                   /\ Cardinality(Copies(t)) <= Cardinality(Rows \X (1..page))
         /\ IsFiniteSet(Rows \X (1..page)) /\ Cardinality(Rows \X (1..page)) \in Nat
  <1>1. \A t : \A p : p \in Copies(t) <=> \E r \in Class(t) : \E i \in 1..got[r] : p = <<r, i>>
    BY DEF Copies
  <1>2. page \in Nat /\ \A r \in Rows : got[r] \in Nat
    BY DEF Types, TypeOK
  <1>3. IsFiniteSet(1..page)
    BY <1>2, FS_Interval
  <1>4. IsFiniteSet(Rows \X (1..page)) /\ Cardinality(Rows \X (1..page)) \in Nat
    BY <1>3, RowsAssumption, FS_Product, FS_CardinalityType
  <1>5. \A t : Copies(t) \subseteq Rows \X (1..page)
    <2>1. \A t : \A r \in Class(t) : \A i \in 1..got[r] : r \in Rows /\ i \in 1..page
      BY <1>2 DEF Class, Given
    <2> QED BY <1>1, <2>1
  <1> QED BY <1>1, <1>4, <1>5, FS_Subset, FS_CardinalityType

LEMMA ShareType ==
  ASSUME Types, NEW t, NEW n \in Nat
  PROVE  /\ Share(t, n) \in Nat /\ Share(t, n) <= Cardinality(Live(t))
         /\ Live(t) \subseteq Rows /\ Newer(t) \subseteq Rows /\ Gone(t) \subseteq Rows
         /\ Class(t) \subseteq Rows
         /\ {Cardinality(Live(t)), Cardinality(Newer(t)), Cardinality(Gone(t)),
             Cardinality(Class(t))} \subseteq Nat
  <1>1. /\ Live(t) \subseteq Rows /\ Newer(t) \subseteq Rows /\ Gone(t) \subseteq Rows
        /\ Class(t) \subseteq Rows
    BY DEF Live, Newer, Gone, Class, Matching
  <1>2. /\ Cardinality(Live(t)) \in Nat /\ Cardinality(Newer(t)) \in Nat
        /\ Cardinality(Gone(t)) \in Nat /\ Cardinality(Class(t)) \in Nat
    BY <1>1, RowsCard
  <1> QED BY <1>1, <1>2 DEF Share, Spread

LEMMA ExcessType ==
  ASSUME Types, Given, Reading
  PROVE  /\ \A t : Excess(t) \in Int /\ Excess(t) <= Cardinality(Rows \X (1..page))
         /\ IsFiniteSet(Again) /\ Cardinality(Again) \in Nat
         /\ \A p : p \in Again <=> \E t \in 0..MaxTime : \E i \in 1..Excess(t) : p = <<t, i>>
  <1>1. Offset \in Nat
    BY DEF Offset, Types, TypeOK, Reading
  <1> DEFINE K == Cardinality(Rows \X (1..page))
  <1>2. \A t : Excess(t) \in Int /\ Excess(t) <= K
    <2> TAKE t
    <2>1. /\ Cardinality(Copies(t)) \in Nat /\ Cardinality(Copies(t)) <= K /\ K \in Nat
          /\ Share(t, Offset) \in Nat /\ Cardinality(Gone(t)) \in Nat
      BY <1>1, CopiesOf, ShareType
    <2> HIDE DEF K
    <2> QED BY <2>1 DEF Excess
  <1>3. \A p : p \in Again <=> \E t \in 0..MaxTime : \E i \in 1..Excess(t) : p = <<t, i>>
    BY DEF Again
  <1>4. K \in Nat
    BY CopiesOf
  <1> HIDE DEF K
  <1>5. Again \subseteq (0..MaxTime) \X (1..K)
    <2>1. ASSUME NEW p \in Again PROVE p \in (0..MaxTime) \X (1..K)
      <3>1. PICK t \in 0..MaxTime : \E i \in 1..Excess(t) : p = <<t, i>>
        BY <1>3
      <3>2. PICK i \in 1..Excess(t) : p = <<t, i>>
        BY <3>1
      <3>3. i \in 1..K
        BY <1>2, <1>4
      <3> QED BY <3>2, <3>3
    <2> QED BY <2>1
  <1>6. IsFiniteSet(0..MaxTime) /\ IsFiniteSet(1..K)
    <2>1. MaxTime \in Int /\ K \in Int
      BY <1>4, SizesAssumption
    <2> QED BY <2>1, Interval
  <1>7. IsFiniteSet((0..MaxTime) \X (1..K))
    BY <1>6, FS_Product
  <1>8. IsFiniteSet(Again) /\ Cardinality(Again) \in Nat
    BY <1>5, <1>7, FS_Subset, FS_CardinalityType
  <1> QED BY <1>2, <1>3, <1>8 DEF K

\* Whatever the order of equal stamps, how many of the first n rows have stamp t.
LEMMA ShareOf ==
  ASSUME Types, NEW n \in Nat, NEW S \in Firsts(n), NEW t \in Int
  PROVE  Cardinality(S \cap Live(t)) = Share(t, n)
  <1>1. /\ S \subseteq Matching /\ Matching \subseteq Rows
        /\ Cardinality(S) = (IF n < Cardinality(Matching) THEN n ELSE Cardinality(Matching))
        /\ \A r \in S, q \in Matching \ S : at[r] >= at[q]
    BY Windows
  <1>2. \A q \in Matching : at[q] \in Int
    BY <1>1 DEF Types, TypeOK
  <1>3. /\ Live(t) \subseteq Matching /\ Newer(t) \subseteq Matching /\ Live(t) \cap Newer(t) = {}
        /\ \A q \in Matching : q \in Live(t) <=> at[q] = t
        /\ \A q \in Matching : q \in Newer(t) <=> at[q] > t
    BY <1>2 DEF Live, Newer
  <1> DEFINE L == Live(t)
             N == Newer(t)
  <1>4. /\ Cardinality(S) \in Nat /\ Cardinality(L) \in Nat /\ Cardinality(N) \in Nat
        /\ Cardinality(S \cap L) \in Nat /\ Cardinality(Matching) \in Nat
        /\ IsFiniteSet(S) /\ IsFiniteSet(L) /\ IsFiniteSet(N) /\ IsFiniteSet(S \cap L)
    BY <1>1, <1>3, RowsCard
  <1>5. Share(t, n) = IF n <= Cardinality(N) THEN 0
                      ELSE IF n - Cardinality(N) <= Cardinality(L) THEN n - Cardinality(N)
                      ELSE Cardinality(L)
    BY DEF Share, Spread
  <1> HIDE DEF L, N
  <1>6. ASSUME L \subseteq S PROVE Cardinality(S \cap L) = Share(t, n)
    <2>1. S \cap L = L
      BY <1>6
    <2>2. CASE L = {}
      <3>1. Cardinality(L) = 0
        BY <2>2, FS_EmptySet
      <3>2. Share(t, n) = Cardinality(L)
        BY <1>4, <1>5, <3>1
      <3> QED BY <2>1, <3>2
    <2>3. CASE L # {}
      <3>1. N \subseteq S
        BY <1>1, <1>2, <1>3, <1>6, <2>3 DEF L, N
      <3>2. N \cup L \subseteq S /\ N \cap L = {}
        BY <1>3, <1>6, <3>1 DEF L, N
      <3>3. Cardinality(N \cup L) = Cardinality(N) + Cardinality(L)
        BY <1>4, <3>2, Apart
      <3>4. Cardinality(N \cup L) <= Cardinality(S)
        BY <1>4, <3>2, FS_Subset
      <3>5. Cardinality(L) # 0
        BY <1>4, <2>3, FS_EmptySet
      <3>6. Cardinality(S) <= n
        BY <1>1, <1>4
      <3>7. Share(t, n) = Cardinality(L)
        BY <1>4, <1>5, <3>3, <3>4, <3>5, <3>6
      <3> QED BY <2>1, <3>7
    <2> QED BY <2>2, <2>3
  <1>7. ASSUME ~(L \subseteq S) PROVE Cardinality(S \cap L) = Share(t, n)
    <2>1. PICK q \in L : q \notin S
      BY <1>7
    <2>2. q \in Matching \ S /\ at[q] = t
      BY <1>3, <2>1 DEF L
    <2>3. Cardinality(S) = n
      <3>1. S # Matching
        BY <2>2
      <3>2. Cardinality(S) # Cardinality(Matching)
        BY <1>1, <3>1, SubCard
      <3> QED BY <1>1, <3>2
    <2>4. S \subseteq N \cup L
      <3>1. ASSUME NEW r \in S PROVE r \in N \cup L
        <4>1. at[r] >= t /\ at[r] \in Int
          BY <1>1, <1>2, <2>2
        <4>2. at[r] > t \/ at[r] = t
          BY <4>1
        <4> QED BY <1>1, <1>3, <4>2 DEF N, L
      <3> QED BY <3>1
    <2>5. CASE S \cap L = {}
      <3>1. S \subseteq N
        BY <2>4, <2>5
      <3>2. Cardinality(S) <= Cardinality(N)
        BY <1>4, <3>1, FS_Subset
      <3>3. Cardinality(S \cap L) = 0
        BY <2>5, FS_EmptySet
      <3> QED BY <1>4, <1>5, <2>3, <3>2, <3>3
    <2>6. CASE S \cap L # {}
      <3>1. PICK r \in S : r \in L
        BY <2>6
      <3>2. N \subseteq S
        <4>1. at[r] = t /\ r \in Matching
          BY <1>1, <1>3, <3>1 DEF L
        <4>2. \A p \in N : p \in Matching /\ at[p] > t /\ at[p] \in Int
          BY <1>2, <1>3 DEF N
        <4> QED BY <1>1, <4>1, <4>2
      <3>3. S = N \cup (S \cap L) /\ N \cap (S \cap L) = {}
        BY <1>3, <2>4, <3>2 DEF N, L
      <3>4. Cardinality(N \cup (S \cap L)) = Cardinality(N) + Cardinality(S \cap L)
        BY <1>4, <3>3, Apart
      <3>5. n = Cardinality(N) + Cardinality(S \cap L)
        BY <2>3, <3>3, <3>4
      <3>6. Cardinality(S \cap L) <= Cardinality(L) /\ Cardinality(S \cap L) # 0
        BY <1>4, <2>6, FS_Subset, FS_EmptySet
      <3> QED BY <1>4, <1>5, <3>5, <3>6
    <2> QED BY <2>5, <2>6
  <1> QED BY <1>6, <1>7 DEF L

------------------------------------------------------------------------------
(* What the reader is given again *)

LEMMA SpreadMoves ==
  ASSUME NEW a \in Nat, NEW m \in Nat, NEW n \in Nat
  PROVE  /\ Spread(a, m + 1, n) >= Spread(a, m, n)
         /\ Spread(a + 1, m, n) + 1 >= Spread(a, m, n)
         /\ ~(a < n /\ n <= a + m) => Spread(a + 1, m, n) = Spread(a, m, n)
         /\ a > 0 => Spread(a - 1, m, n) >= Spread(a, m, n)
         /\ m > 0 => Spread(a, m - 1, n) + 1 >= Spread(a, m, n)
         /\ Spread(a, m, n) \in Nat /\ Spread(a, m, n) <= m
  BY DEF Spread

\* The page before the next ends among the rows stamped t.
Reached(t) ==
    /\ Cardinality(Newer(t)) < Offset
    /\ Offset <= Cardinality(Newer(t)) + Cardinality(Live(t))

LEMMA ReachedOnce ==
  ASSUME Types, Reading, NEW t \in Int, NEW u \in Int, Reached(t), Reached(u)
  PROVE  t = u
  <1>1. \A q \in Matching : at[q] \in Int
    BY DEF Matching, Types, TypeOK
  <1>2. Offset \in Nat
    BY DEF Offset, Types, TypeOK, Reading
  <1>3. ASSUME NEW a \in Int, NEW b \in Int, a > b, Reached(a), Reached(b) PROVE FALSE
    <2>1. /\ Newer(a) \cup Live(a) \subseteq Newer(b) /\ Newer(a) \cap Live(a) = {}
          /\ Newer(b) \subseteq Rows /\ Newer(a) \subseteq Rows /\ Live(a) \subseteq Rows
      BY <1>1, <1>3 DEF Newer, Live, Matching
    <2>2. /\ Cardinality(Newer(a)) \in Nat /\ Cardinality(Live(a)) \in Nat
          /\ Cardinality(Newer(b)) \in Nat
          /\ IsFiniteSet(Newer(a)) /\ IsFiniteSet(Live(a))
      BY <2>1, RowsCard
    <2>3. Cardinality(Newer(a) \cup Live(a)) = Cardinality(Newer(a)) + Cardinality(Live(a))
      BY <2>1, <2>2, Apart
    <2>4. Cardinality(Newer(a) \cup Live(a)) <= Cardinality(Newer(b))
      BY <2>1, SubCard
    <2> QED BY <1>2, <1>3, <2>2, <2>3, <2>4 DEF Reached
  <1> QED BY <1>3

\* The table never changes what the reader has been given.
LEMMA CopiesKeep ==
  ASSUME Types, Given, NEW r \in Rows, TableStep(r), NEW t
  PROVE  Copies(t)' = Copies(t) /\ Gone(t) \subseteq Gone(t)' /\ Gone(t)' \subseteq Rows
  <1>1. /\ got' = got
        /\ \A q \in Rows : row[q] # "new" =>
              row'[q] # "new" /\ at'[q] = at[q] /\ Due(q)' = Due(q)
    BY TableKeeps
  <1>2. \A q \in Rows : row[q] = "gone" => row'[q] = "gone"
    BY DEF TableStep, Insert, Commit, Abort, Delete, Types, TypeOK
  <1>3. \A q \in Rows : got[q] > 0 => (q \in Class(t)' <=> q \in Class(t))
    BY <1>1 DEF Given, Class
  <1>4. \A q \in Rows : got[q] \in Nat
    BY DEF Types, TypeOK
  <1>5. \A q \in Rows : \A i \in 1..got[q] : got[q] > 0
    BY <1>4
  <1>6. Class(t) \subseteq Rows /\ Class(t)' \subseteq Rows
    BY DEF Class
  <1>7. \A p : p \in Copies(t) <=> \E q \in Class(t) : \E i \in 1..got[q] : p = <<q, i>>
    BY DEF Copies
  <1>8. \A p : p \in Copies(t)' <=> \E q \in Class(t)' : \E i \in 1..got[q] : p = <<q, i>>
    BY <1>1 DEF Copies
  <1>9. \A p : p \in Copies(t)' <=> p \in Copies(t)
    BY <1>3, <1>5, <1>6, <1>7, <1>8
  <1>10. Gone(t) \subseteq Gone(t)' /\ Gone(t)' \subseteq Rows
    BY <1>1, <1>2 DEF Gone, Class
  <1> QED BY <1>9, <1>10

\* The stamp of a row that comes into the list or leaves it.
LEMMA SharesStep ==
  ASSUME Types, NEW r \in Rows, TableStep(r), NEW t \in Int
  PROVE  \/ Live(t)' = Live(t) /\ Newer(t)' = Newer(t)
         \/ /\ Commit(r) /\ Due(r)
            /\ \/ Live(t)' = Live(t) \cup {r} /\ Newer(t)' = Newer(t)
               \/ Live(t)' = Live(t) /\ Newer(t)' = Newer(t) \cup {r}
            /\ r \notin Live(t) /\ r \notin Newer(t)
         \/ /\ Delete(r) /\ r \in Matching
            /\ \/ at[r] = t /\ Live(t)' = Live(t) \ {r} /\ Newer(t)' = Newer(t) /\ r \in Live(t)
               \/ Live(t)' = Live(t) /\ Newer(t)' = Newer(t) \ {r} /\ r \in Newer(t)
  <1>1. Matching \subseteq Rows /\ \A q \in Rows : at[q] \in Int
    BY DEF Matching, Types, TypeOK
  <1>2. CASE (\E k \in Keys : Insert(r, k)) \/ Abort(r)
    <2>1. Matching' = Matching /\ \A q \in Matching : at'[q] = at[q]
      BY <1>2, MatchingStep, TableKeeps DEF Matching, TableStep
    <2> QED BY <2>1 DEF Live, Newer
  <1>3. CASE Commit(r)
    <2>1. Matching' = Matching \cup {q \in {r} : Due(r)} /\ r \notin Matching /\ at' = at
      BY <1>3, MatchingStep DEF Commit
    <2>2. CASE ~Due(r)
      BY <2>1, <2>2 DEF Live, Newer
    <2>3. CASE Due(r)
      <3>1. Matching' = Matching \cup {r} /\ r \notin Live(t) /\ r \notin Newer(t)
        BY <2>1, <2>3 DEF Live, Newer
      <3>2. CASE at[r] = t
        <4>1. Live(t)' = Live(t) \cup {r} /\ Newer(t)' = Newer(t)
          BY <1>1, <2>1, <3>1, <3>2 DEF Live, Newer
        <4> QED BY <1>3, <2>3, <3>1, <4>1
      <3>3. CASE at[r] > t
        <4>1. Live(t)' = Live(t) /\ Newer(t)' = Newer(t) \cup {r}
          BY <1>1, <2>1, <3>1, <3>3 DEF Live, Newer
        <4> QED BY <1>3, <2>3, <3>1, <4>1
      <3>4. CASE at[r] < t
        BY <1>1, <2>1, <3>1, <3>4 DEF Live, Newer
      <3> QED BY <1>1, <3>2, <3>3, <3>4
    <2> QED BY <2>2, <2>3
  <1>4. CASE Delete(r)
    <2>1. Matching' = Matching \ {r} /\ at' = at
      BY <1>4, MatchingStep DEF Delete
    <2>2. CASE r \notin Matching
      BY <2>1, <2>2 DEF Live, Newer
    <2>3. CASE r \in Matching
      <3>1. CASE at[r] = t
        <4>1. Live(t)' = Live(t) \ {r} /\ Newer(t)' = Newer(t) /\ r \in Live(t)
          BY <1>1, <2>1, <2>3, <3>1 DEF Live, Newer
        <4> QED BY <1>4, <2>3, <3>1, <4>1
      <3>2. CASE at[r] > t
        <4>1. Live(t)' = Live(t) /\ Newer(t)' = Newer(t) \ {r} /\ r \in Newer(t)
          BY <1>1, <2>1, <2>3, <3>2 DEF Live, Newer
        <4> QED BY <1>4, <2>3, <4>1
      <3>3. CASE at[r] < t
        BY <1>1, <2>1, <2>3, <3>3 DEF Live, Newer
      <3> QED BY <1>1, <3>1, <3>2, <3>3
    <2> QED BY <2>2, <2>3
  <1> QED BY <1>2, <1>3, <1>4 DEF TableStep

\* Only a row that is added in front moves rows the reader was given onto his next page,
\* and only of the stamp the page before it ends with.
LEMMA ExcessStep ==
  ASSUME Types, Given, Reading, NEW r \in Rows, TableStep(r), NEW t \in Int
  PROVE  /\ Excess(t)' \in Int /\ Excess(t) \in Int
         /\ \/ Excess(t)' <= Excess(t)
            \/ Commit(r) /\ Due(r) /\ Reached(t) /\ Excess(t)' <= Excess(t) + 1
  <1>1. Offset \in Nat /\ Offset' = Offset
    <2>1. Offset \in Nat
      BY DEF Offset, Types, TypeOK, Reading
    <2> QED BY <2>1, TableKeeps DEF Offset
  <1>2. Copies(t)' = Copies(t) /\ Gone(t) \subseteq Gone(t)' /\ Gone(t)' \subseteq Rows
    BY CopiesKeep
  <1> DEFINE c == Cardinality(Copies(t))
             a == Cardinality(Newer(t))
             m == Cardinality(Live(t))
             g == Cardinality(Gone(t))
             a1 == Cardinality(Newer(t)')
             m1 == Cardinality(Live(t)')
             g1 == Cardinality(Gone(t)')
             n == Offset
  <1>3. /\ c \in Nat /\ a \in Nat /\ m \in Nat /\ g \in Nat /\ n \in Nat
    BY <1>1, CopiesOf, ShareType
  <1>4. Newer(t) \subseteq Rows /\ Live(t) \subseteq Rows /\ Gone(t) \subseteq Rows
    BY ShareType
  <1>5. IsFiniteSet(Newer(t)) /\ IsFiniteSet(Live(t)) /\ g1 \in Nat /\ g <= g1
    BY <1>2, <1>4, RowsCard, SubCard
  <1>6. Excess(t) = c - Spread(a, m, n) - g
    BY DEF Excess, Share
  <1>7. Excess(t)' = c - Spread(a1, m1, n) - g1
    BY <1>1, <1>2 DEF Excess, Share
  <1>8. Reached(t) <=> a < n /\ n <= a + m
    BY DEF Reached
  <1>9. \/ a1 = a /\ m1 = m
        \/ Commit(r) /\ Due(r) /\ ((a1 = a /\ m1 = m + 1) \/ (a1 = a + 1 /\ m1 = m))
        \/ a1 = a /\ m1 = m - 1 /\ m > 0 /\ g1 >= g + 1
        \/ a1 = a - 1 /\ m1 = m /\ a > 0
    <2>1. CASE Live(t)' = Live(t) /\ Newer(t)' = Newer(t)
      BY <2>1
    <2>2. ASSUME NEW S, IsFiniteSet(S), r \notin S
          PROVE  Cardinality(S \cup {r}) = Cardinality(S) + 1
      BY <2>2, FS_AddElement
    <2>3. ASSUME NEW S, IsFiniteSet(S), r \in S
          PROVE  Cardinality(S \ {r}) = Cardinality(S) - 1 /\ Cardinality(S) # 0
      BY <2>3, FS_RemoveElement, FS_EmptySet
    <2>4. CASE /\ Commit(r) /\ Due(r)
               /\ \/ Live(t)' = Live(t) \cup {r} /\ Newer(t)' = Newer(t)
                  \/ Live(t)' = Live(t) /\ Newer(t)' = Newer(t) \cup {r}
               /\ r \notin Live(t) /\ r \notin Newer(t)
      <3>1. CASE Live(t)' = Live(t) \cup {r} /\ Newer(t)' = Newer(t)
        <4>1. m1 = m + 1 /\ a1 = a
          BY <1>5, <2>2, <2>4, <3>1
        <4> QED BY <2>4, <4>1
      <3>2. CASE Live(t)' = Live(t) /\ Newer(t)' = Newer(t) \cup {r}
        <4>1. m1 = m /\ a1 = a + 1
          BY <1>5, <2>2, <2>4, <3>2
        <4> QED BY <2>4, <4>1
      <3> QED BY <2>4, <3>1, <3>2
    <2>5. CASE Delete(r) /\ r \in Matching /\ at[r] = t /\ Live(t)' = Live(t) \ {r}
               /\ Newer(t)' = Newer(t) /\ r \in Live(t)
      <3>1. m1 = m - 1 /\ m # 0 /\ a1 = a
        BY <1>5, <2>3, <2>5
      <3>2. r \in Gone(t)' /\ r \notin Gone(t)
        <4>1. row[r] = "live" /\ row' = [row EXCEPT ![r] = "gone"] /\ at' = at
              /\ row \in [Rows -> {"new", "stamped", "live", "gone"}]
          BY <2>5 DEF Delete, Types, TypeOK
        <4>2. Due(r) /\ Due(r)' = Due(r)
          BY <2>5, <4>1, TableKeeps DEF Matching
        <4> QED BY <2>5, <4>1, <4>2 DEF Gone, Class
      <3>3. g # g1
        BY <1>2, <3>2, SubCard
      <3> HIDE DEF c, a, m, g, a1, m1, g1, n
      <3> QED BY <1>3, <1>5, <3>1, <3>3
    <2>6. CASE Live(t)' = Live(t) /\ Newer(t)' = Newer(t) \ {r} /\ r \in Newer(t)
      <3>1. m1 = m /\ a1 = a - 1 /\ a # 0
        BY <1>5, <2>3, <2>6
      <3> HIDE DEF c, a, m, g, a1, m1, g1, n
      <3> QED BY <1>3, <3>1
    <2> HIDE DEF c, a, m, g, a1, m1, g1, n
    <2>7. \/ Live(t)' = Live(t) /\ Newer(t)' = Newer(t)
          \/ /\ Commit(r) /\ Due(r)
             /\ \/ Live(t)' = Live(t) \cup {r} /\ Newer(t)' = Newer(t)
                \/ Live(t)' = Live(t) /\ Newer(t)' = Newer(t) \cup {r}
             /\ r \notin Live(t) /\ r \notin Newer(t)
          \/ /\ Delete(r) /\ r \in Matching
             /\ \/ at[r] = t /\ Live(t)' = Live(t) \ {r} /\ Newer(t)' = Newer(t) /\ r \in Live(t)
                \/ Live(t)' = Live(t) /\ Newer(t)' = Newer(t) \ {r} /\ r \in Newer(t)
      BY SharesStep, Zenon
    <2>8. CASE /\ Delete(r) /\ r \in Matching
               /\ \/ at[r] = t /\ Live(t)' = Live(t) \ {r} /\ Newer(t)' = Newer(t) /\ r \in Live(t)
                  \/ Live(t)' = Live(t) /\ Newer(t)' = Newer(t) \ {r} /\ r \in Newer(t)
      BY <2>5, <2>6, <2>8
    <2> QED BY <2>1, <2>4, <2>7, <2>8
  <1> HIDE DEF c, a, m, g, a1, m1, g1, n
  <1>10. Spread(a, m, n) \in Nat
    BY <1>3, SpreadMoves
  <1>11. CASE a1 = a /\ m1 = m
    BY <1>3, <1>5, <1>6, <1>7, <1>10, <1>11
  <1>12. CASE a1 = a /\ m1 = m + 1
    <2>1. Spread(a, m + 1, n) >= Spread(a, m, n) /\ Spread(a, m + 1, n) \in Nat
      BY <1>3, SpreadMoves
    <2> QED BY <1>3, <1>5, <1>6, <1>7, <1>10, <1>12, <2>1
  <1>13. CASE Commit(r) /\ Due(r) /\ a1 = a + 1 /\ m1 = m
    <2>1. /\ Spread(a + 1, m, n) + 1 >= Spread(a, m, n) /\ Spread(a + 1, m, n) \in Nat
      BY <1>3, SpreadMoves
    <2>2. CASE Reached(t)
      <3>1. Excess(t)' \in Int /\ Excess(t) \in Int /\ Excess(t)' <= Excess(t) + 1
        BY <1>3, <1>5, <1>6, <1>7, <1>10, <1>13, <2>1
      <3> QED BY <1>13, <2>2, <3>1
    <2>3. CASE ~Reached(t)
      <3>1. Spread(a + 1, m, n) = Spread(a, m, n)
        BY <1>3, <1>8, <2>3, SpreadMoves
      <3> QED BY <1>3, <1>5, <1>6, <1>7, <1>10, <1>13, <2>1, <3>1
    <2> QED BY <2>2, <2>3
  <1>14. CASE a1 = a /\ m1 = m - 1 /\ m > 0 /\ g1 >= g + 1
    <2>1. m - 1 \in Nat
      BY <1>3, <1>14
    <2>2. Spread(a, m - 1, n) + 1 >= Spread(a, m, n) /\ Spread(a, m - 1, n) \in Nat
      BY <1>3, <1>14, <2>1, SpreadMoves
    <2> QED BY <1>3, <1>5, <1>6, <1>7, <1>10, <1>14, <2>2
  <1>15. CASE a1 = a - 1 /\ m1 = m /\ a > 0
    <2>1. a - 1 \in Nat
      BY <1>3, <1>15
    <2>2. Spread(a - 1, m, n) >= Spread(a, m, n) /\ Spread(a - 1, m, n) \in Nat
      BY <1>3, <1>15, <2>1, SpreadMoves
    <2> QED BY <1>3, <1>5, <1>6, <1>7, <1>10, <1>15, <2>2
  <1> QED BY <1>9, <1>11, <1>12, <1>13, <1>14, <1>15

LEMMA AgainIs ==
  ASSUME NEW p
  PROVE  p \in Again <=> \E t \in 0..MaxTime : \E i \in 1..Excess(t) : p = <<t, i>>
  BY DEF Again

\* Each row added in front brings one row back, no other step of the table any.
LEMMA AgainStep ==
  ASSUME Types, Given, Reading, NEW r \in Rows, TableStep(r), Cardinality(Again) <= added
  PROVE  (Cardinality(Again) <= added)'
  <1>1. \A t \in 0..MaxTime : t \in Int
    BY SizesAssumption
  <1>2. IsFiniteSet(Again) /\ Cardinality(Again) \in Nat
    BY ExcessType
  <1>3. added \in Nat /\ added' \in Nat /\ added <= added'
    BY DEF TableStep, Insert, Commit, Abort, Delete, history, Types, TypeOK
  <1>4. \A p : p \in Again' <=> \E t \in 0..MaxTime : \E i \in 1..Excess(t)' : p = <<t, i>>
    BY DEF Again
  <1>5. ASSUME \A t \in 0..MaxTime : Excess(t)' <= Excess(t)
        PROVE  (Cardinality(Again) <= added)'
    <2>1. ASSUME NEW p \in Again' PROVE p \in Again
      <3>1. PICK t \in 0..MaxTime : \E i \in 1..Excess(t)' : p = <<t, i>>
        BY <1>4
      <3>2. PICK i \in 1..Excess(t)' : p = <<t, i>>
        BY <3>1
      <3>3. Excess(t)' \in Int /\ Excess(t) \in Int /\ Excess(t)' <= Excess(t)
        BY <1>1, <1>5, ExcessStep
      <3>4. i \in 1..Excess(t)
        BY <3>3
      <3> QED BY <3>2, <3>4, AgainIs
    <2>2. Cardinality(Again') <= Cardinality(Again) /\ IsFiniteSet(Again')
      BY <1>2, <2>1, FS_Subset
    <2>3. Cardinality(Again') \in Nat
      BY <2>2, FS_CardinalityType
    <2> QED BY <1>2, <1>3, <2>2, <2>3
  <1>6. ASSUME NEW u \in 0..MaxTime, ~(Excess(u)' <= Excess(u))
        PROVE  (Cardinality(Again) <= added)'
    <2>1. /\ Commit(r) /\ Due(r) /\ Reached(u) /\ Excess(u)' <= Excess(u) + 1
          /\ Excess(u)' \in Int /\ Excess(u) \in Int
      BY <1>1, <1>6, ExcessStep
    <2>2. added' = added + 1
      BY <2>1 DEF Commit, Reading
    <2> DEFINE x == <<u, Excess(u) + 1>>
    <2>3. ASSUME NEW p \in Again' PROVE p \in Again \cup {x}
      <3>1. PICK t \in 0..MaxTime : \E i \in 1..Excess(t)' : p = <<t, i>>
        BY <1>4
      <3>2. PICK i \in 1..Excess(t)' : p = <<t, i>>
        BY <3>1
      <3>3. /\ Excess(t)' \in Int /\ Excess(t) \in Int
            /\ Excess(t)' <= Excess(t) \/ Reached(t)
        BY <1>1, ExcessStep
      <3>4. CASE i \in 1..Excess(t)
        BY <3>2, <3>4, AgainIs
      <3>5. CASE i \notin 1..Excess(t)
        <4>1. Reached(t)
          BY <3>3, <3>5
        <4>2. t = u
          BY <1>1, <2>1, <4>1, ReachedOnce
        <4>3. i \in 1..Excess(u)' /\ i \notin 1..Excess(u)
          BY <3>5, <4>2
        <4>4. i = Excess(u) + 1
          BY <2>1, <4>3
        <4> QED BY <3>2, <4>2, <4>4
      <3> QED BY <3>4, <3>5
    <2> HIDE DEF x
    <2>4. Again' \subseteq Again \cup {x}
      BY <2>3
    <2> DEFINE A == Again
    <2>5. IsFiniteSet(A) /\ Cardinality(A) \in Nat /\ Cardinality(A) <= added
      BY <1>2
    <2> HIDE DEF A
    <2>6. IsFiniteSet(A \cup {x}) /\ Cardinality(A \cup {x}) <= Cardinality(A) + 1
      <3>1. /\ IsFiniteSet(A \cup {x})
            /\ Cardinality(A \cup {x}) = IF x \in A THEN Cardinality(A) ELSE Cardinality(A) + 1
        BY <2>5, FS_AddElement, Zenon
      <3> QED BY <2>5, <3>1
    <2>7. Again' \subseteq A \cup {x}
      BY <2>4 DEF A
    <2>8. Cardinality(Again') <= Cardinality(A \cup {x}) /\ IsFiniteSet(Again')
      BY <2>6, <2>7, FS_Subset
    <2>9. Cardinality(Again') \in Nat /\ Cardinality(A \cup {x}) \in Nat
      BY <2>6, <2>8, FS_CardinalityType
    <2> QED BY <1>3, <2>2, <2>5, <2>6, <2>8, <2>9
  <1> QED BY <1>5, <1>6

------------------------------------------------------------------------------
(* The count of the repeats *)

LEMMA LeastNat ==
  ASSUME NEW S, S \subseteq Nat, S # {}
  PROVE  \E n \in S : \A m \in S : n <= m
  <1>1. PICK n \in S : \A m \in S : ~(<<m, n>> \in OpToRel(<, Nat))
    BY WFMin, NatLessThanWellFounded, Zenon
  <1>2. \A m \in S : ~(m < n)
    BY <1>1 DEF OpToRel
  <1> QED BY <1>2

Stamped(S, w, t) == {p \in S : w[p] = t}

\* What is bounded stamp by stamp is bounded.
LEMMA StampByStamp ==
  ASSUME NEW R, IsFiniteSet(R), NEW f \in [R -> Nat],
         NEW E, IsFiniteSet(E), NEW g \in [E -> Nat],
         NEW D, IsFiniteSet(D), NEW h \in [D -> Nat],
         NEW k \in Nat, \A p \in R : f[p] < k,
         \A t \in Nat : Cardinality(Stamped(R, f, t)) <=
                          Cardinality(Stamped(E, g, t)) + Cardinality(Stamped(D, h, t))
  PROVE  Cardinality(R) <= Cardinality(E) + Cardinality(D)
  <1> DEFINE Under(S, w, t) == {p \in S : w[p] < t}
             Level(S, w, t) == Stamped(S, w, t)
             Good(t) == Cardinality(Under(R, f, t)) <=
                          Cardinality(Under(E, g, t)) + Cardinality(Under(D, h, t))
  <1>1. ASSUME NEW S, IsFiniteSet(S), NEW w \in [S -> Nat], NEW t \in Nat
        PROVE  /\ Cardinality(Under(S, w, t)) \in Nat /\ Cardinality(Level(S, w, t)) \in Nat
               /\ Cardinality(Under(S, w, t + 1)) =
                    Cardinality(Under(S, w, t)) + Cardinality(Level(S, w, t))
               /\ Under(S, w, 0) = {}
               /\ Cardinality(Under(S, w, t)) <= Cardinality(S) /\ Cardinality(S) \in Nat
    <2>1. \A p \in S : w[p] \in Nat
      OBVIOUS
    <2>2. /\ Under(S, w, t) \subseteq S /\ Level(S, w, t) \subseteq S
          /\ Under(S, w, t) \cap Level(S, w, t) = {}
          /\ Under(S, w, t + 1) = Under(S, w, t) \cup Level(S, w, t)
          /\ Under(S, w, 0) = {}
      BY <2>1 DEF Stamped
    <2> DEFINE U == Under(S, w, t)
               V == Level(S, w, t)
    <2> HIDE DEF Under, Level
    <2>3. U \subseteq S /\ V \subseteq S /\ U \cap V = {}
      BY <2>2
    <2> HIDE DEF U, V
    <2>4. IsFiniteSet(U) /\ IsFiniteSet(V) /\ Cardinality(U) <= Cardinality(S)
      BY <1>1, <2>3, FS_Subset
    <2>5. Cardinality(U \cup V) = Cardinality(U) + Cardinality(V)
      BY <2>3, <2>4, Apart
    <2>6. Cardinality(U) \in Nat /\ Cardinality(V) \in Nat /\ Cardinality(S) \in Nat
      BY <1>1, <2>4, FS_CardinalityType
    <2>7. Under(S, w, t + 1) = U \cup V
      BY <2>2 DEF U, V
    <2>8. Cardinality(Under(S, w, t + 1)) = Cardinality(U) + Cardinality(V)
      BY <2>5, <2>7
    <2> QED BY <2>2, <2>4, <2>6, <2>8 DEF U, V
  <1>2. \A t \in Nat : Cardinality(Level(R, f, t)) <=
                         Cardinality(Level(E, g, t)) + Cardinality(Level(D, h, t))
    OBVIOUS
  <1>3. Under(R, f, k) = R
    OBVIOUS
  <1> HIDE DEF Under, Level
  <1>4. Good(0)
    <2>1. /\ Cardinality(Under(R, f, 0)) = 0
          /\ Cardinality(Under(E, g, 0)) = 0
          /\ Cardinality(Under(D, h, 0)) = 0
      BY <1>1, FS_EmptySet
    <2> QED BY <2>1
  <1>5. ASSUME NEW t \in Nat, Good(t) PROVE Good(t + 1)
    <2>1. /\ Cardinality(Under(R, f, t + 1)) = Cardinality(Under(R, f, t)) + Cardinality(Level(R, f, t))
          /\ Cardinality(Under(R, f, t)) \in Nat /\ Cardinality(Level(R, f, t)) \in Nat
      BY <1>1
    <2>2. /\ Cardinality(Under(E, g, t + 1)) = Cardinality(Under(E, g, t)) + Cardinality(Level(E, g, t))
          /\ Cardinality(Under(E, g, t)) \in Nat /\ Cardinality(Level(E, g, t)) \in Nat
      BY <1>1
    <2>3. /\ Cardinality(Under(D, h, t + 1)) = Cardinality(Under(D, h, t)) + Cardinality(Level(D, h, t))
          /\ Cardinality(Under(D, h, t)) \in Nat /\ Cardinality(Level(D, h, t)) \in Nat
      BY <1>1
    <2>4. Cardinality(Level(R, f, t)) <= Cardinality(Level(E, g, t)) + Cardinality(Level(D, h, t))
      BY <1>2
    <2> QED BY <1>5, <2>1, <2>2, <2>3, <2>4
  <1> HIDE DEF Good
  <1>6. Good(k)
    <2> DEFINE Bad == {t \in Nat : ~Good(t)}
    <2>1. Bad = {}
      <3>1. ASSUME Bad # {} PROVE FALSE
        <4>1. PICK t \in Bad : \A u \in Bad : t <= u
          BY <3>1, LeastNat
        <4>2. t \in Nat /\ ~Good(t) /\ t # 0
          BY <1>4, <4>1
        <4>3. t - 1 \in Nat /\ t - 1 \notin Bad
          BY <4>1, <4>2
        <4>4. Good(t - 1)
          BY <4>3
        <4>5. Good((t - 1) + 1)
          BY <1>5, <4>3, <4>4
        <4> QED BY <4>2, <4>5
      <3> QED BY <3>1
    <2> QED BY <2>1
  <1>7. /\ Cardinality(Under(E, g, k)) <= Cardinality(E) /\ Cardinality(E) \in Nat
        /\ Cardinality(Under(E, g, k)) \in Nat
    BY <1>1
  <1>8. /\ Cardinality(Under(D, h, k)) <= Cardinality(D) /\ Cardinality(D) \in Nat
        /\ Cardinality(Under(D, h, k)) \in Nat
    BY <1>1
  <1>9. Cardinality(R) \in Nat
    BY FS_CardinalityType
  <1> QED BY <1>3, <1>6, <1>7, <1>8, <1>9 DEF Good

\* Of the rows of one stamp, some in their places and some gone.
LEMMA OneStamp ==
  ASSUME NEW C, IsFiniteSet(C), NEW g, NEW k \in Nat, \A r \in C : g[r] \in Nat /\ g[r] <= k,
         NEW s \in Nat, s <= Cardinality(C)
  PROVE  LET copies == UNION {{r} \X (1..g[r]) : r \in C}
             again == UNION {{r} \X (2..g[r]) : r \in C}
         IN  /\ IsFiniteSet(copies) /\ IsFiniteSet(again) /\ Cardinality(copies) \in Nat
             /\ Cardinality(again) <= (IF Cardinality(copies) > s THEN Cardinality(copies) - s ELSE 0)
                                      + (IF Cardinality(C) > 1 THEN Cardinality(C) ELSE 0)
  <1> DEFINE copies == UNION {{r} \X (1..g[r]) : r \in C}
             again == UNION {{r} \X (2..g[r]) : r \in C}
             firsts == {p \in copies : p[2] = 1}
  <1>1. \A p : p \in copies <=> \E r \in C : \E i \in 1..g[r] : p = <<r, i>>
    OBVIOUS
  <1>2. \A p : p \in again <=> \E r \in C : \E i \in 2..g[r] : p = <<r, i>>
    OBVIOUS
  <1>3. \A p : p \in firsts <=> p \in copies /\ p[2] = 1
    OBVIOUS
  <1>4. \A r \in C : g[r] \in Nat
    OBVIOUS
  <1> HIDE DEF copies, again, firsts
  <1>5. copies \subseteq C \X (1..k)
    <2>1. ASSUME NEW p \in copies PROVE p \in C \X (1..k)
      <3>1. PICK r \in C : \E i \in 1..g[r] : p = <<r, i>>
        BY <1>1
      <3>2. PICK i \in 1..g[r] : p = <<r, i>>
        BY <3>1
      <3>3. i \in 1..k
        BY <1>4
      <3> QED BY <3>2, <3>3
    <2> QED BY <2>1
  <1>6. IsFiniteSet(C \X (1..k))
    <2>1. IsFiniteSet(1..k)
      BY Interval
    <2> QED BY <2>1, FS_Product
  <1>7. IsFiniteSet(copies)
    BY <1>5, <1>6, FS_Subset
  <1>8. again = copies \ firsts /\ firsts \subseteq copies
    <2>1. ASSUME NEW p \in again PROVE p \in copies /\ p \notin firsts
      <3>1. PICK r \in C : \E i \in 2..g[r] : p = <<r, i>>
        BY <1>2
      <3>2. PICK i \in 2..g[r] : p = <<r, i>>
        BY <3>1
      <3>3. i \in 1..g[r] /\ i # 1
        BY <1>4
      <3> QED BY <1>1, <1>3, <3>2, <3>3
    <2>2. ASSUME NEW p \in copies, p \notin firsts PROVE p \in again
      <3>1. PICK r \in C : \E i \in 1..g[r] : p = <<r, i>>
        BY <1>1
      <3>2. PICK i \in 1..g[r] : p = <<r, i>>
        BY <3>1
      <3>3. i # 1
        BY <1>3, <2>2, <3>2
      <3>4. i \in 2..g[r]
        BY <1>4, <3>3
      <3> QED BY <1>2, <3>2, <3>4
    <2> QED BY <1>3, <2>1, <2>2
  <1>9. firsts \subseteq {<<r, [q \in C |-> 1][r]>> : r \in C}
    <2>1. ASSUME NEW p \in firsts PROVE p \in {<<r, [q \in C |-> 1][r]>> : r \in C}
      <3>1. PICK r \in C : \E i \in 1..g[r] : p = <<r, i>>
        BY <1>1, <1>3
      <3>2. p = <<r, 1>>
        BY <1>3, <3>1
      <3> QED BY <3>2
    <2> QED BY <2>1
  <1>10. Cardinality(firsts) <= Cardinality(C)
    <2> DEFINE ones == [q \in C |-> 1]
    <2>1. firsts \subseteq {<<r, ones[r]>> : r \in C}
      BY <1>9
    <2> HIDE DEF ones
    <2>2. IsFiniteSet({<<r, ones[r]>> : r \in C}) /\ Cardinality({<<r, ones[r]>> : r \in C}) = Cardinality(C)
      BY Pairs
    <2>3. Cardinality(firsts) <= Cardinality({<<r, ones[r]>> : r \in C})
      BY <2>1, <2>2, FS_Subset
    <2> QED BY <2>2, <2>3
  <1>11. IsFiniteSet(again) /\ IsFiniteSet(firsts)
    BY <1>7, <1>8, FS_Subset
  <1>12. Cardinality(copies) = Cardinality(again) + Cardinality(firsts)
    <2>1. copies = again \cup firsts /\ again \cap firsts = {}
      BY <1>8
    <2> QED BY <1>11, <2>1, Apart
  <1>13. /\ Cardinality(copies) \in Nat /\ Cardinality(again) \in Nat /\ Cardinality(firsts) \in Nat
         /\ Cardinality(C) \in Nat
    BY <1>7, <1>11, FS_CardinalityType
  <1>14. again = {} \/ firsts # {}
    <2>1. ASSUME NEW p \in again PROVE firsts # {}
      <3>1. PICK r \in C : \E i \in 2..g[r] : p = <<r, i>>
        BY <1>2
      <3>2. 1 \in 1..g[r]
        BY <1>4, <3>1
      <3>3. <<r, 1>> \in firsts
        BY <1>1, <1>3, <3>2
      <3> QED BY <3>3
    <2> QED BY <2>1
  <1>15. Cardinality(again) = 0 \/ Cardinality(firsts) # 0
    BY <1>11, <1>14, FS_EmptySet
  <1>16. Cardinality(again) <= (IF Cardinality(copies) > s THEN Cardinality(copies) - s ELSE 0)
                               + (IF Cardinality(C) > 1 THEN Cardinality(C) ELSE 0)
    BY <1>10, <1>12, <1>13, <1>15
  <1> QED BY <1>7, <1>11, <1>13, <1>16 DEF copies, again

\* Owed to the rows added in front, or to equal stamps: what would be repeats if each row
\* had been given g[r] times.
LEMMA Owed ==
  ASSUME Types, Given, Reading, Cardinality(Again) <= added,
         NEW g \in [Rows -> Nat], NEW k \in Nat, \A r \in Rows : g[r] <= k,
         \A r \in Rows : g[r] > 0 => row[r] # "new" /\ Due(r),
         \A t \in 0..MaxTime : \E s \in Nat :
            /\ s <= Cardinality(Live(t))
            /\ Excess(t) = Cardinality(UNION {{r} \X (1..g[r]) : r \in Class(t)})
                             - s - Cardinality(Gone(t))
  PROVE  Cardinality(UNION {{r} \X (2..g[r]) : r \in Rows}) <= added + Cardinality(Tied)
  <1> DEFINE R == UNION {{r} \X (2..g[r]) : r \in Rows}
             f == [p \in R |-> at[p[1]]]
             e == [p \in Again |-> p[1]]
             h == [r \in Tied |-> at[r]]
  <1>1. /\ MaxTime \in Nat /\ \A r \in Rows : at[r] \in 0..MaxTime /\ g[r] \in Nat
        /\ added \in Nat /\ Tied \subseteq Rows
    BY SizesAssumption DEF Types, TypeOK, Tied
  <1>2. \A p : p \in R <=> \E r \in Rows : \E i \in 2..g[r] : p = <<r, i>>
    OBVIOUS
  <1>3. IsFiniteSet(R)
    <2>1. ASSUME NEW p \in R PROVE p \in Rows \X (1..k)
      <3>1. PICK r \in Rows : \E i \in 2..g[r] : p = <<r, i>>
        BY <1>2, <2>1
      <3>2. PICK i \in 2..g[r] : p = <<r, i>>
        BY <3>1
      <3>3. i \in 1..k
        BY <1>1
      <3> QED BY <3>2, <3>3
    <2>2. IsFiniteSet(1..k)
      BY Interval
    <2>3. IsFiniteSet(Rows \X (1..k))
      BY <2>2, RowsAssumption, FS_Product
    <2> QED BY <2>1, <2>3, FS_Subset
  <1>4. f \in [R -> Nat] /\ \A p \in R : f[p] < MaxTime + 1
    <2>1. ASSUME NEW p \in R PROVE at[p[1]] \in 0..MaxTime
      <3>1. PICK r \in Rows : \E i \in 2..g[r] : p = <<r, i>>
        BY <1>2, <2>1
      <3> QED BY <1>1, <3>1
    <2> HIDE DEF R
    <2> QED BY <1>1, <2>1
  <1>5. IsFiniteSet(Again) /\ Cardinality(Again) \in Nat /\ e \in [Again -> Nat]
    <2>1. IsFiniteSet(Again) /\ Cardinality(Again) \in Nat
      BY ExcessType
    <2>2. \A p \in Again : p[1] \in Nat
      BY <1>1, AgainIs
    <2> QED BY <2>1, <2>2
  <1>6. IsFiniteSet(Tied) /\ Cardinality(Tied) \in Nat /\ h \in [Tied -> Nat]
    BY <1>1, RowsCard
  <1>7. ASSUME NEW t \in Nat
        PROVE  Cardinality(Stamped(R, f, t)) <=
                 Cardinality(Stamped(Again, e, t)) + Cardinality(Stamped(Tied, h, t))
    <2> USE DEF Stamped
    <2> DEFINE Rt == Stamped(R, f, t)
               Et == Stamped(Again, e, t)
               Dt == Stamped(Tied, h, t)
    <2>1. IsFiniteSet(Et) /\ IsFiniteSet(Dt)
      BY <1>5, <1>6, FS_Subset
    <2>2. Cardinality(Et) \in Nat /\ Cardinality(Dt) \in Nat
      BY <2>1, FS_CardinalityType
    <2>3. CASE t \notin 0..MaxTime
      <3>1. Rt = {}
        BY <1>1, <1>4, <2>3
      <3>2. Cardinality(Rt) = 0
        BY <3>1, FS_EmptySet
      <3> HIDE DEF Rt, Et, Dt
      <3>3. Cardinality(Rt) <= Cardinality(Et) + Cardinality(Dt)
        BY <2>2, <3>2
      <3> QED BY <3>3 DEF Rt, Et, Dt
    <2>4. CASE t \in 0..MaxTime
      <3> DEFINE C == Class(t)
                 copies == UNION {{r} \X (1..g[r]) : r \in C}
                 again == UNION {{r} \X (2..g[r]) : r \in C}
      <3>1. PICK s \in Nat : /\ s <= Cardinality(Live(t))
                             /\ Excess(t) = Cardinality(copies) - s - Cardinality(Gone(t))
        BY <2>4
      <3>2. Rt = again
        <4>1. ASSUME NEW p \in Rt PROVE p \in again
          <5>1. PICK r \in Rows : \E i \in 2..g[r] : p = <<r, i>>
            BY <1>2, <4>1
          <5>2. PICK i \in 2..g[r] : p = <<r, i>>
            BY <5>1
          <5>3. at[r] = t /\ g[r] > 0
            BY <1>1, <4>1, <5>1
          <5>4. r \in C
            BY <5>3 DEF Class
          <5> QED BY <5>2, <5>4
        <4>2. ASSUME NEW p \in again PROVE p \in Rt
          <5>1. PICK r \in C : \E i \in 2..g[r] : p = <<r, i>>
            BY <4>2
          <5>2. r \in Rows /\ at[r] = t
            BY DEF Class
          <5> QED BY <1>2, <5>1, <5>2
        <4> QED BY <4>1, <4>2
      <3>3. /\ C \subseteq Rows /\ IsFiniteSet(C) /\ Cardinality(C) \in Nat
            /\ \A r \in C : g[r] \in Nat /\ g[r] <= k
        BY <1>1, RowsCard DEF Class
      <3>4. s + Cardinality(Gone(t)) <= Cardinality(C) /\ Cardinality(Gone(t)) \in Nat
        <4>1. /\ Live(t) \subseteq Rows /\ Gone(t) \subseteq Rows /\ Live(t) \cap Gone(t) = {}
              /\ Live(t) \cup Gone(t) \subseteq C
          BY DEF Live, Gone, Class, Matching
        <4>2. /\ IsFiniteSet(Live(t)) /\ IsFiniteSet(Gone(t))
              /\ Cardinality(Live(t)) \in Nat /\ Cardinality(Gone(t)) \in Nat
          BY <4>1, RowsCard
        <4>3. Cardinality(Live(t) \cup Gone(t)) = Cardinality(Live(t)) + Cardinality(Gone(t))
          BY <4>1, <4>2, Apart
        <4>4. Cardinality(Live(t) \cup Gone(t)) <= Cardinality(C)
          BY <3>3, <4>1, SubCard
        <4> QED BY <3>1, <3>3, <4>2, <4>3, <4>4
      <3> DEFINE n == s + Cardinality(Gone(t))
      <3>5. n \in Nat /\ n <= Cardinality(C)
        BY <3>4
      <3>6. /\ Cardinality(copies) \in Nat /\ IsFiniteSet(again)
            /\ Cardinality(again) <= (IF Cardinality(copies) > n THEN Cardinality(copies) - n ELSE 0)
                                     + (IF Cardinality(C) > 1 THEN Cardinality(C) ELSE 0)
        <4> HIDE DEF n, C
        <4> QED BY <3>3, <3>5, OneStamp
      <3>7. Cardinality(again) \in Nat
        BY <3>6, FS_CardinalityType
      <3>8. Excess(t) = Cardinality(copies) - n /\ Excess(t) \in Int
        <4> HIDE DEF copies
        <4> QED BY <3>1, <3>4, <3>6
      <3>9. Excess(t) > 0 => Cardinality(Et) >= Excess(t)
        <4> SUFFICES ASSUME Excess(t) > 0 PROVE Cardinality(Et) >= Excess(t)
          OBVIOUS
        <4> DEFINE I == 1..Excess(t)
        <4>1. IsFiniteSet(I) /\ Cardinality(I) = Excess(t)
          BY <3>8, Interval
        <4>2. {t} \X I \subseteq Et
          <5>1. ASSUME NEW p \in {t} \X I PROVE p \in Et
            <6>1. PICK i \in I : p = <<t, i>>
              BY <5>1
            <6>2. p \in Again
              BY <2>4, <6>1, AgainIs
            <6> QED BY <6>1, <6>2
          <5> QED BY <5>1
        <4> HIDE DEF I, Et
        <4>3. IsFiniteSet({t}) /\ Cardinality({t}) = 1
          BY FS_Singleton
        <4>4. Cardinality({t} \X I) = 1 * Cardinality(I)
          BY <4>1, <4>3, FS_Product
        <4>5. Cardinality({t} \X I) <= Cardinality(Et)
          BY <2>1, <4>2, FS_Subset
        <4> QED BY <2>2, <3>8, <4>1, <4>4, <4>5
      <3>10. Cardinality(C) > 1 => Cardinality(Dt) >= Cardinality(C)
        <4> SUFFICES ASSUME Cardinality(C) > 1 PROVE Cardinality(Dt) >= Cardinality(C)
          OBVIOUS
        <4>1. ASSUME NEW r \in C PROVE r \in Dt
          <5>1. \E q \in C : q # r
            <6>1. ASSUME C \subseteq {r} PROVE FALSE
              <7>1. IsFiniteSet({r}) /\ Cardinality({r}) = 1
                BY FS_Singleton
              <7>2. Cardinality(C) <= 1
                BY <6>1, <7>1, FS_Subset
              <7> QED BY <3>3, <7>2
            <6> QED BY <6>1
          <5> QED BY <5>1 DEF Class, Tied
        <4>2. C \subseteq Dt
          BY <4>1
        <4> HIDE DEF C, Dt
        <4> QED BY <2>1, <4>2, FS_Subset
      <3> HIDE DEF Rt, Et, Dt, C, copies, again, n
      <3>11. Cardinality(again) <= Cardinality(Et) + Cardinality(Dt)
        <4>1. Excess(t) <= 0 \/ Cardinality(Et) >= Excess(t)
          BY <3>8, <3>9
        <4>2. n \in Nat /\ Cardinality(C) \in Nat
          BY <3>3, <3>5
        <4> QED BY <2>2, <3>6, <3>7, <3>8, <3>10, <4>1, <4>2
      <3> QED BY <3>2, <3>11 DEF Rt, Et, Dt
    <2> QED BY <2>3, <2>4
  <1>8. MaxTime + 1 \in Nat
    BY <1>1
  <1> HIDE DEF R, f, e, h
  <1>9. Cardinality(R) <= Cardinality(Again) + Cardinality(Tied)
    BY <1>3, <1>4, <1>5, <1>6, <1>7, <1>8, StampByStamp
  <1>10. Cardinality(R) \in Nat
    BY <1>3, FS_CardinalityType
  <1>11. Cardinality(R) <= added + Cardinality(Tied)
    BY <1>1, <1>5, <1>6, <1>9, <1>10
  <1> QED BY <1>11 DEF R

LEMMA RepeatTable ==
  ASSUME Types, RepeatInv, NEW r \in Rows, TableStep(r)
  PROVE  RepeatInv'
  <1>0. /\ UNCHANGED <<got, pc, page>> /\ Tied \subseteq Tied' /\ Tied' \subseteq Rows
        /\ \A q \in Rows : row[q] # "new" => Due(q)' = Due(q)
        /\ \A q \in Rows : row[q] \in {"live", "gone"} => row'[q] \in {"live", "gone"}
    BY TableKeeps
  <1>1. Given'
    BY <1>0 DEF RepeatInv, Given
  <1>2. Reading' => (Cardinality(Again) <= added)'
    BY <1>0, AgainStep DEF RepeatInv, Reading
  <1>3. RepeatsBounded'
    <2>1. Repeats' = Repeats
      BY <1>0 DEF Repeats
    <2>2. Cardinality(Tied) <= Cardinality(Tied')
      BY <1>0, SubCard
    <2>3. Cardinality(Tied) \in Nat /\ Cardinality(Tied') \in Nat
      BY <1>0, RowsCard
    <2>4. added \in Nat /\ added' \in Nat /\ added <= added'
      BY DEF TableStep, Insert, Commit, Abort, Delete, history, Types, TypeOK
    <2>5. IsFiniteSet(Repeats)
      <3>1. \A q \in Rows : got[q] \in Nat /\ got[q] <= page /\ page \in Nat
        BY DEF RepeatInv, Given, Types, TypeOK
      <3>2. \A p : p \in Repeats <=> \E q \in Rows : \E i \in 2..got[q] : p = <<q, i>>
        BY DEF Repeats
      <3>3. page \in Nat
        BY DEF Types, TypeOK
      <3>4. ASSUME NEW p \in Repeats PROVE p \in Rows \X (1..page)
        <4>1. PICK q \in Rows : \E i \in 2..got[q] : p = <<q, i>>
          BY <3>2, <3>4
        <4>2. PICK i \in 2..got[q] : p = <<q, i>>
          BY <4>1
        <4>3. i \in 1..page
          BY <3>1
        <4> QED BY <4>2, <4>3
      <3>5. IsFiniteSet(1..page)
        BY <3>3, Interval
      <3>6. IsFiniteSet(Rows \X (1..page))
        BY <3>5, RowsAssumption, FS_Product
      <3> QED BY <3>4, <3>6, FS_Subset
    <2>6. Cardinality(Repeats) \in Nat
      BY <2>5, FS_CardinalityType
    <2>7. Cardinality(Repeats) <= added + Cardinality(Tied)
      BY DEF RepeatInv, RepeatsBounded
    <2> QED BY <2>1, <2>2, <2>3, <2>4, <2>6, <2>7 DEF RepeatsBounded
  <1> QED BY <1>1, <1>2, <1>3 DEF RepeatInv

\* A page gives of each stamp as many rows as its places on it.
LEMMA RepeatSelect ==
  ASSUME Types, RepeatInv, Select
  PROVE  RepeatInv'
  <1>1. PICK items \in Page :
          got' = [r \in Rows |-> IF r \in items THEN got[r] + 1 ELSE got[r]]
    BY DEF Select
  <1>2. PICK S \in Firsts(Offset), T \in Firsts(Offset + size) : S \subseteq T /\ items = T \ S
    BY <1>1 DEF Page
  <1>3. /\ pc = "select" /\ page' = page + 1
        /\ UNCHANGED <<now, table, filter, size, byTotal, total, base, history>>
    BY DEF Select
  <1>4. /\ Offset \in Nat /\ size \in Nat \ {0} /\ Offset' = Offset + size /\ page \in Nat
        /\ Offset + size \in Nat /\ Reading
    BY <1>3 DEF Offset, Types, TypeOK, Reading
  <1>5. /\ Matching' = Matching /\ Tied' = Tied
        /\ \A r : Due(r)' = Due(r)
        /\ \A t : Class(t)' = Class(t) /\ Live(t)' = Live(t) /\ Newer(t)' = Newer(t)
                  /\ Gone(t)' = Gone(t)
    BY <1>3 DEF Matching, Tied, Class, Live, Newer, Gone, Due, table
  <1>6. /\ S \subseteq Matching /\ T \subseteq Matching /\ items \subseteq Matching
        /\ \A r \in Rows : got[r] \in Nat
        /\ got' \in [Rows -> Nat]
    <2>1. S \subseteq Matching /\ T \subseteq Matching
      BY <1>2, <1>4, Windows
    <2> QED BY <1>1, <1>2, <2>1 DEF Types, TypeOK
  <1>7. Given
    BY DEF RepeatInv
  <1>8. Given'
    <2>1. \A r \in Rows : got[r] <= page /\ (got[r] > 0 => row[r] \in {"live", "gone"} /\ Due(r))
      BY <1>7 DEF Given
    <2>2. \A r \in items : row[r] = "live" /\ Due(r)
      BY <1>6 DEF Matching
    <2>3. \A r \in Rows : got'[r] = IF r \in items THEN got[r] + 1 ELSE got[r]
      BY <1>1
    <2>4. \A r \in Rows : got'[r] <= page + 1 /\ (got'[r] > 0 => row[r] \in {"live", "gone"} /\ Due(r))
      BY <1>4, <1>6, <2>1, <2>2, <2>3
    <2> QED BY <1>3, <1>5, <2>4 DEF Given, table
  <1>9. ASSUME NEW t \in 0..MaxTime
        PROVE  /\ Excess(t) = Cardinality(Copies(t)') - Share(t, Offset + size) - Cardinality(Gone(t))
               /\ Excess(t)' = Excess(t)
    <2> DEFINE new == {<<r, got'[r]>> : r \in items \cap Live(t)}
    <2>1. t \in Int
      BY SizesAssumption
    <2>2. /\ Live(t) \subseteq Matching /\ Live(t) \subseteq Class(t) /\ Matching \subseteq Rows
          /\ Class(t) \subseteq Rows /\ items \cap Class(t) = items \cap Live(t)
      BY <1>6 DEF Live, Class, Matching
    <2>3. Copies(t)' = Copies(t) \cup new
      <3>1. \A p : p \in Copies(t) <=> \E r \in Class(t) : \E i \in 1..got[r] : p = <<r, i>>
        BY DEF Copies
      <3>2. \A p : p \in Copies(t)' <=> \E r \in Class(t) : \E i \in 1..got'[r] : p = <<r, i>>
        BY <1>5 DEF Copies
      <3>3. \A p : p \in new <=> \E r \in items \cap Live(t) : p = <<r, got'[r]>>
        OBVIOUS
      <3>4. \A r \in Class(t) : r \in items => got'[r] = got[r] + 1 /\ got[r] \in Nat /\ r \in Live(t)
        BY <1>1, <1>6, <2>2
      <3>5. \A r \in Class(t) : r \notin items => got'[r] = got[r]
        BY <1>1, <2>2
      <3> HIDE DEF new
      <3>6. ASSUME NEW p \in Copies(t)' PROVE p \in Copies(t) \cup new
        <4>1. PICK r \in Class(t) : \E i \in 1..got'[r] : p = <<r, i>>
          BY <3>2, <3>6
        <4>2. PICK i \in 1..got'[r] : p = <<r, i>>
          BY <4>1
        <4>3. i \in 1..got[r] \/ (r \in items \cap Live(t) /\ i = got'[r])
          BY <3>4, <3>5
        <4> QED BY <3>1, <3>3, <4>2, <4>3
      <3>7. ASSUME NEW p \in Copies(t) PROVE p \in Copies(t)'
        <4>1. PICK r \in Class(t) : \E i \in 1..got[r] : p = <<r, i>>
          BY <3>1
        <4>2. PICK i \in 1..got[r] : p = <<r, i>>
          BY <4>1
        <4>3. i \in 1..got'[r]
          BY <3>4, <3>5
        <4> QED BY <3>2, <4>2, <4>3
      <3>8. ASSUME NEW p \in new PROVE p \in Copies(t)'
        <4>1. PICK r \in items \cap Live(t) : p = <<r, got'[r]>>
          BY <3>3
        <4>2. r \in Class(t) /\ got'[r] \in 1..got'[r]
          BY <2>2, <3>4, <4>1
        <4> QED BY <3>2, <4>1, <4>2
      <3> QED BY <3>6, <3>7, <3>8
    <2>4. Copies(t) \cap new = {}
      <3>1. ASSUME NEW p \in Copies(t), p \in new PROVE FALSE
        <4>1. PICK r \in Class(t) : \E i \in 1..got[r] : p = <<r, i>>
          BY DEF Copies
        <4>2. PICK i \in 1..got[r] : p = <<r, i>>
          BY <4>1
        <4>3. PICK q \in items \cap Live(t) : p = <<q, got'[q]>>
          BY <3>1
        <4>4. q = r /\ i = got[r] + 1 /\ got[r] \in Nat
          BY <1>1, <1>6, <2>2, <4>2, <4>3
        <4> QED BY <4>2, <4>4
      <3> QED BY <3>1
    <2>5. /\ IsFiniteSet(new) /\ Cardinality(new) = Cardinality(items \cap Live(t))
          /\ Cardinality(items \cap Live(t)) \in Nat
      <3>1. IsFiniteSet(items \cap Live(t)) /\ Cardinality(items \cap Live(t)) \in Nat
        BY <2>2, RowsCard
      <3> QED BY <3>1, Pairs
    <2>6. IsFiniteSet(Copies(t)) /\ Cardinality(Copies(t)) \in Nat
      BY <1>7, CopiesOf
    <2> HIDE DEF new
    <2>7. Cardinality(Copies(t)') = Cardinality(Copies(t)) + Cardinality(items \cap Live(t))
      BY <2>3, <2>4, <2>5, <2>6, Apart
    <2>8. Cardinality(items \cap Live(t)) = Share(t, Offset + size) - Share(t, Offset)
      <3>1. items \cap Live(t) = (T \cap Live(t)) \ (S \cap Live(t))
        BY <1>2
      <3>2. S \cap Live(t) \subseteq T \cap Live(t) /\ T \cap Live(t) \subseteq Rows
        BY <1>2, <2>2
      <3>3. Cardinality((T \cap Live(t)) \ (S \cap Live(t))) =
              Cardinality(T \cap Live(t)) - Cardinality(S \cap Live(t))
        BY <3>2, SubCard
      <3>4. Cardinality(S \cap Live(t)) = Share(t, Offset)
        BY <1>2, <1>4, <2>1, ShareOf
      <3>5. Cardinality(T \cap Live(t)) = Share(t, Offset + size)
        BY <1>2, <1>4, <2>1, ShareOf
      <3> QED BY <3>1, <3>3, <3>4, <3>5
    <2>9. Share(t, Offset) \in Nat /\ Share(t, Offset + size) \in Nat /\ Cardinality(Gone(t)) \in Nat
      BY <1>4, ShareType
    <2>10. Excess(t) = Cardinality(Copies(t)') - Share(t, Offset + size) - Cardinality(Gone(t))
      <3>1. Excess(t) = Cardinality(Copies(t)) - Share(t, Offset) - Cardinality(Gone(t))
        BY DEF Excess
      <3> QED BY <2>5, <2>6, <2>7, <2>8, <2>9, <3>1
    <2>11. Share(t, Offset)' = Share(t, Offset + size)
      BY <1>4, <1>5 DEF Share
    <2>12. Excess(t)' = Cardinality(Copies(t)') - Share(t, Offset)' - Cardinality(Gone(t)')
      BY DEF Excess
    <2>13. Excess(t)' = Excess(t)
      BY <1>5, <2>10, <2>11, <2>12
    <2> QED BY <2>10, <2>13
  <1>10. Cardinality(Again) <= added
    BY <1>4 DEF RepeatInv
  <1>11. (Cardinality(Again) <= added)'
    <2>1. Again' = Again
      <3>1. \A p : p \in Again' <=> \E t \in 0..MaxTime : \E i \in 1..Excess(t)' : p = <<t, i>>
        BY DEF Again
      <3>2. \A p : p \in Again' <=> p \in Again
        BY <1>9, <3>1, AgainIs
      <3> QED BY <3>2
    <2> QED BY <1>3, <1>10, <2>1 DEF history
  <1>12. RepeatsBounded'
    <2> DEFINE g == got'
               k == page + 1
    <2>1. g \in [Rows -> Nat] /\ k \in Nat
      BY <1>4, <1>6
    <2>2. \A r \in Rows : g[r] <= k /\ (g[r] > 0 => row[r] # "new" /\ Due(r))
      BY <1>3, <1>5, <1>8 DEF Given, table
    <2>3. \A t \in 0..MaxTime : Copies(t)' = UNION {{r} \X (1..g[r]) : r \in Class(t)}
      BY <1>5 DEF Copies
    <2>4. ASSUME NEW t \in 0..MaxTime
          PROVE  \E s \in Nat :
                   /\ s <= Cardinality(Live(t))
                   /\ Excess(t) = Cardinality(UNION {{r} \X (1..g[r]) : r \in Class(t)})
                                    - s - Cardinality(Gone(t))
      <3>1. Excess(t) = Cardinality(UNION {{r} \X (1..g[r]) : r \in Class(t)})
                          - Share(t, Offset + size) - Cardinality(Gone(t))
        BY <1>9, <2>3
      <3>2. Share(t, Offset + size) \in Nat /\ Share(t, Offset + size) <= Cardinality(Live(t))
        BY <1>4, ShareType
      <3> QED BY <3>1, <3>2
    <2> HIDE DEF g, k
    <2>5. Cardinality(UNION {{r} \X (2..g[r]) : r \in Rows}) <= added + Cardinality(Tied)
      BY <1>4, <1>7, <1>10, <2>1, <2>2, <2>4, Owed
    <2>6. Repeats' = UNION {{r} \X (2..g[r]) : r \in Rows}
      BY DEF Repeats, g
    <2> QED BY <1>3, <1>5, <2>5, <2>6 DEF RepeatsBounded, history
  <1> QED BY <1>8, <1>11, <1>12 DEF RepeatInv

LEMMA RepeatStep ==
  ASSUME Types, RepeatInv, [Next]_vars
  PROVE  RepeatInv'
  <1>1. ASSUME NEW r \in Rows, TableStep(r) PROVE RepeatInv'
    BY <1>1, RepeatTable
  <1>2. ASSUME UNCHANGED <<table, filter, size, page, got, base, history>>, pc' = pc \/ Count
        PROVE  RepeatInv'
    <2>1. /\ Repeats' = Repeats /\ Tied' = Tied /\ added' = added
          /\ \A r : Due(r)' = Due(r)
      BY <1>2 DEF table, history, Repeats, Tied, Due
    <2>2. \A t : Excess(t)' = Excess(t)
      BY <1>2 DEF table, Excess, Copies, Share, Gone, Class, Live, Newer, Matching, Due, Offset
    <2>3. Again' = Again
      BY <2>2 DEF Again
    <2>4. Reading' = Reading
      BY <1>2 DEF Reading, Count
    <2>5. Given'
      BY <1>2, <2>1 DEF RepeatInv, Given, table
    <2> QED BY <2>1, <2>3, <2>4, <2>5 DEF RepeatInv, RepeatsBounded
  <1>3. CASE Start
    <2>1. /\ pc = "off" /\ pc' = "count" /\ page' = 1 /\ added' = added /\ got' = got
          /\ added \in Nat /\ \A r \in Rows : got[r] = 0
      BY <1>3 DEF Start, history, Types, TypeOK
    <2>2. Types'
      BY TypesStep
    <2>3. Repeats' = {}
      <3>1. \A r \in Rows : 2..got'[r] = {}
        BY <2>1
      <3> QED BY <3>1 DEF Repeats
    <2>4. Cardinality(Repeats') = 0
      BY <2>3, FS_EmptySet
    <2>5. Cardinality(Tied') \in Nat
      BY RowsCard DEF Tied
    <2>6. Given'
      BY <2>1 DEF Given
    <2>7. ASSUME NEW t \in 0..MaxTime PROVE Excess(t)' \in Int /\ Excess(t)' <= 0
      <3>1. Cardinality(Copies(t)') = 0
        <4>1. \A p : p \in Copies(t)' <=> \E r \in Class(t)' : \E i \in 1..got'[r] : p = <<r, i>>
          BY DEF Copies
        <4>2. \A r \in Class(t)' : 1..got'[r] = {}
          BY <2>1 DEF Class
        <4>3. Copies(t)' = {}
          BY <4>1, <4>2
        <4> QED BY <4>3, FS_EmptySet
      <3>2. /\ Cardinality(Live(t)') \in Nat /\ Cardinality(Newer(t)') \in Nat
            /\ Cardinality(Gone(t)') \in Nat
        BY RowsCard DEF Live, Newer, Gone, Class, Matching
      <3>3. Offset' \in Nat
        <4>1. size' \in Nat
          BY <2>2 DEF Types, TypeOK
        <4>2. Offset' = (page' - 1) * size'
          BY DEF Offset
        <4>3. Offset' = 0
          <5>1. page' - 1 = 0
            BY <2>1
          <5>2. \A s \in Nat : 0 * s = 0
            OBVIOUS
          <5> QED BY <4>1, <4>2, <5>1, <5>2
        <4> QED BY <4>3
      <3>4. Share(t, Offset)' \in Nat
        <4>1. Share(t, Offset)' = Spread(Cardinality(Newer(t)'), Cardinality(Live(t)'), Offset')
          BY DEF Share
        <4>2. ASSUME NEW a \in Nat, NEW m \in Nat, NEW n \in Nat PROVE Spread(a, m, n) \in Nat
          BY SpreadMoves
        <4> QED BY <3>2, <3>3, <4>1, <4>2
      <3>5. Excess(t)' = Cardinality(Copies(t)') - Share(t, Offset)' - Cardinality(Gone(t)')
        BY DEF Excess
      <3> QED BY <3>1, <3>2, <3>4, <3>5
    <2>8. Again' = {}
      <3>1. \A t \in 0..MaxTime : 1..Excess(t)' = {}
        BY <2>7
      <3> QED BY <3>1 DEF Again
    <2>9. Cardinality(Again') = 0
      BY <2>8, FS_EmptySet
    <2> QED BY <2>1, <2>4, <2>5, <2>6, <2>9 DEF RepeatInv, RepeatsBounded
  <1>4. CASE Select
    BY <1>4, RepeatSelect
  <1>5. CASE Tick
    BY <1>2, <1>5 DEF Tick, walk
  <1>6. CASE Count
    BY <1>2, <1>6 DEF Count
  <1>7. CASE UNCHANGED vars
    BY <1>2, <1>7 DEF vars, walk
  <1> QED BY <1>1, <1>3, <1>4, <1>5, <1>6, <1>7 DEF Next, TableStep

\* A reader gets a row a second time only for a row that was added in front of it, or
\* because its stamp is another's too (feed/repo.go 55-90, interaction/repo.go 126-160).
THEOREM FewRepeats == Spec => []RepeatsBounded
  <1>1. Init => RepeatInv
    <2> SUFFICES ASSUME Init PROVE RepeatInv
      OBVIOUS
    <2>1. got = [r \in Rows |-> 0] /\ page = 0 /\ pc = "off" /\ added = 0
      BY DEF Init
    <2>2. Given
      BY <2>1 DEF Given
    <2>3. Repeats = {}
      <3>1. \A r \in Rows : 2..got[r] = {}
        BY <2>1
      <3> QED BY <3>1 DEF Repeats
    <2>4. Cardinality(Repeats) = 0 /\ Cardinality(Tied) \in Nat
      BY <2>3, FS_EmptySet, RowsCard DEF Tied
    <2> QED BY <2>1, <2>2, <2>4 DEF RepeatInv, RepeatsBounded, Reading
  <1>2. Types /\ RepeatInv /\ [Next]_vars => (Types /\ RepeatInv)'
    BY TypesStep, RepeatStep
  <1>3. RepeatInv => RepeatsBounded
    BY DEF RepeatInv
  <1> QED BY <1>1, <1>2, <1>3, InitTypes, PTL DEF Spec
=============================================================================
