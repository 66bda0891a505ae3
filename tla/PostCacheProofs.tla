--------------------------- MODULE PostCacheProofs ---------------------------
(* What PostCache guarantees for any posts, requests and workers, and any     *)
(* number of ranking runs cut off.                                            *)
EXTENDS PostCache, FiniteSetTheorems, TLAPS

------------------------------------------------------------------------------
(* Types *)

ReqPCs == {"idle", "get", "row", "insert", "set", "delete", "done"}
RunPCs == {"idle", "zadd", "rename", "mask", "fetch", "store"}

Exists(p) == rows[p] # "none"

Types ==
    /\ rows \in [Posts -> {"none", "live", "deleted"}]
    /\ cached \subseteq Posts /\ hot \subseteq Posts /\ tmp \subseteq Posts
    /\ pc \in [Reqs -> ReqPCs] /\ post \in [Reqs -> Posts]
    /\ rpc \in [Workers -> RunPCs]
    /\ top \in [Workers -> SUBSET Posts] /\ load \in [Workers -> SUBSET Posts]
    /\ latest \subseteq Posts
    /\ crashes \in 0..MaxCrashes

\* What a request or a run is about to write was read from the table, or has just
\* been written there.
ReadInv ==
    /\ \A p \in cached \cup hot \cup tmp : Exists(p)
    /\ \A r \in Reqs : pc[r] = "set" => Exists(post[r])
    /\ \A w \in Workers :
         rpc[w] # "idle" => top[w] # {} /\ \A p \in top[w] : Exists(p)
    /\ \A w \in Workers : rpc[w] = "store" => \A p \in load[w] : Exists(p)

LEMMA InitTypes == Init => Types /\ ReadInv
  <1>1. Init => post \in [Reqs -> Posts]
    BY PostsAssumption DEF Init
  <1>2. Init => crashes \in 0..MaxCrashes
    BY NumbersAssumption DEF Init
  <1> QED BY <1>1, <1>2 DEF Init, Types, ReadInv, ReqPCs, RunPCs

LEMMA RequestTypes ==
  ASSUME Types, ReadInv, NEW r \in Reqs, Start(r) \/ Handle(r)
  PROVE  Types' /\ ReadInv'
  <1> USE DEF request, ranking, Goto, Exists
  <1>0. ReqPCs = {"idle", "get", "row", "insert", "set", "delete", "done"}
    BY DEF ReqPCs
  <1>1. CASE Start(r)
    <2>1. PICK p \in Posts, l \in {"get", "insert", "delete"} :
            post' = [post EXCEPT ![r] = p] /\ pc' = [pc EXCEPT ![r] = l]
      BY <1>1 DEF Start
    <2>2. post' \in [Reqs -> Posts] /\ pc' \in [Reqs -> ReqPCs]
      BY <1>0, <2>1 DEF Types
    <2>3. \A q \in Reqs : pc'[q] = "set" => pc[q] = "set" /\ post'[q] = post[q]
      BY <2>1 DEF Types
    <2> QED BY <1>1, <2>2, <2>3 DEF Start, Types, ReadInv
  <1>2. CASE Get(r)
    <2>1. pc' \in [Reqs -> ReqPCs] /\ \A q \in Reqs : pc'[q] = "set" => pc[q] = "set"
      BY <1>0, <1>2 DEF Get, Types
    <2> QED BY <1>2, <2>1 DEF Get, Types, ReadInv
  <1>3. CASE Row(r)
    <2>1. /\ pc' \in [Reqs -> ReqPCs]
          /\ \A q \in Reqs : pc'[q] = "set" => pc[q] = "set" \/ Found(post[q])
      BY <1>0, <1>3 DEF Row, Types
    <2> QED BY <1>3, <2>1 DEF Row, Found, Types, ReadInv
  <1>4. CASE Insert(r)
    <2>1. /\ rows' = [rows EXCEPT ![post[r]] = "live"] /\ post[r] \in Posts
          /\ pc' = [pc EXCEPT ![r] = "set"]
      BY <1>4 DEF Insert, Types
    <2>2. rows' \in [Posts -> {"none", "live", "deleted"}] /\ pc' \in [Reqs -> ReqPCs]
      BY <1>0, <2>1 DEF Types
    <2>3. \A p \in Posts : rows[p] # "none" => rows'[p] # "none"
      BY <2>1 DEF Types
    <2>4. rows'[post[r]] # "none"
      BY <1>4, <2>1 DEF Insert, Types
    <2>5. \A q \in Reqs : pc'[q] = "set" => pc[q] = "set" \/ q = r
      BY <2>1 DEF Types
    <2>6. post' = post
      BY <1>4 DEF Insert
    <2>7. \A q \in Reqs : pc'[q] = "set" => rows'[post'[q]] # "none"
      BY <2>3, <2>4, <2>5, <2>6 DEF Types, ReadInv
    <2>8. UNCHANGED <<cached, hot, tmp, ranking, latest, crashes>>
      BY <1>4 DEF Insert
    <2> QED BY <2>2, <2>3, <2>6, <2>7, <2>8 DEF Types, ReadInv
  <1>5. CASE Set(r)
    <2>1. pc[r] = "set" /\ cached' \subseteq cached \cup {post[r]}
      BY <1>5 DEF Set
    <2>2. pc' \in [Reqs -> ReqPCs] /\ \A q \in Reqs : pc'[q] = "set" => pc[q] = "set"
      BY <1>0, <1>5 DEF Set, Types
    <2>3. cached' \subseteq Posts /\ \A p \in cached' : Exists(p)
      BY <2>1 DEF Types, ReadInv
    <2> QED BY <1>5, <2>2, <2>3 DEF Set, Types, ReadInv
  <1>6. CASE Delete(r)
    <2>1. rows' \in [Posts -> {"none", "live", "deleted"}]
      BY <1>6 DEF Delete, Types
    <2>2. \A p \in Posts : Exists(p) => Exists(p)'
      BY <1>6 DEF Delete, Types
    <2>3. pc' \in [Reqs -> ReqPCs] /\ \A q \in Reqs : pc'[q] = "set" => pc[q] = "set"
      BY <1>0, <1>6 DEF Delete, Types
    <2> HIDE DEF Exists
    <2>4. UNCHANGED <<cached, hot, tmp, post, ranking, latest, crashes>>
      BY <1>6 DEF Delete
    <2> QED BY <2>1, <2>2, <2>3, <2>4 DEF Types, ReadInv
  <1> QED BY <1>1, <1>2, <1>3, <1>4, <1>5, <1>6 DEF Handle

LEMMA RunTypes ==
  ASSUME Types, ReadInv, NEW w \in Workers, Scan(w) \/ Rank(w) \/ Crash(w)
  PROVE  Types' /\ ReadInv'
  <1> USE DEF request, ranking, RankGoto, Exists
  <1>0. RunPCs = {"idle", "zadd", "rename", "mask", "fetch", "store"}
    BY DEF RunPCs
  <1>1. CASE Scan(w)
    <2>1. PICK S \in SUBSET Live : S # {} /\ top' = [top EXCEPT ![w] = S]
      BY <1>1 DEF Scan
    <2>2. S \subseteq Posts /\ \A p \in S : Exists(p)
      BY DEF Live, Found
    <2>3. top' \in [Workers -> SUBSET Posts] /\ rpc' \in [Workers -> RunPCs]
      BY <1>0, <1>1, <2>1, <2>2 DEF Scan, Types
    <2>4. \A v \in Workers : v = w \/ (top'[v] = top[v] /\ rpc'[v] = rpc[v])
      BY <1>1, <2>1 DEF Scan, Types
    <2>5. top'[w] = S /\ rpc'[w] = "zadd"
      BY <1>1, <2>1 DEF Scan, Types
    <2> QED BY <1>1, <2>1, <2>2, <2>3, <2>4, <2>5 DEF Scan, Types, ReadInv
  <1>2. CASE ZAdd(w)
    <2>1. rpc' \in [Workers -> RunPCs]
      BY <1>0, <1>2 DEF ZAdd, Types
    <2>2. \A v \in Workers : rpc'[v] # "idle" => rpc[v] # "idle"
      BY <1>2 DEF ZAdd, Types
    <2>3. \A v \in Workers : rpc'[v] = "store" => rpc[v] = "store"
      BY <1>2 DEF ZAdd, Types
    <2>4. tmp' \subseteq Posts /\ \A p \in tmp' : Exists(p)
      BY <1>2 DEF ZAdd, Types, ReadInv
    <2> QED BY <1>2, <2>1, <2>2, <2>3, <2>4 DEF ZAdd, Types, ReadInv
  <1>3. CASE Rename(w)
    <2>1. rpc' \in [Workers -> RunPCs]
      BY <1>0, <1>3 DEF Rename, Types
    <2>2. \A v \in Workers : rpc'[v] # "idle" => rpc[v] # "idle"
      BY <1>3 DEF Rename, Types
    <2>3. \A v \in Workers : rpc'[v] = "store" => rpc[v] = "store"
      BY <1>3 DEF Rename, Types
    <2>4. tmp' \subseteq tmp /\ hot' \subseteq hot \cup tmp /\ latest' \subseteq Posts
      BY <1>3 DEF Rename, Types
    <2> QED BY <1>3, <2>1, <2>2, <2>3, <2>4 DEF Rename, Types, ReadInv
  <1>4. CASE Mask(w)
    <2>1. rpc' \in [Workers -> RunPCs] /\ load' \in [Workers -> SUBSET Posts]
      BY <1>0, <1>4 DEF Mask, Types
    <2>2. \A v \in Workers : rpc'[v] # "idle" => rpc[v] # "idle"
      BY <1>4 DEF Mask, Types
    <2>3. \A v \in Workers : rpc'[v] = "store" => rpc[v] = "store" /\ load'[v] = load[v]
      BY <1>4 DEF Mask, Types
    <2> QED BY <1>4, <2>1, <2>2, <2>3 DEF Mask, Types, ReadInv
  <1>5. CASE Fetch(w)
    <2>1. load' = [load EXCEPT ![w] = {p \in load[w] : Found(p)}]
      BY <1>5 DEF Fetch
    <2>2. rpc' \in [Workers -> RunPCs] /\ load' \in [Workers -> SUBSET Posts]
      BY <1>0, <1>5, <2>1 DEF Fetch, Types
    <2>3. \A v \in Workers : rpc'[v] # "idle" => rpc[v] # "idle"
      BY <1>5 DEF Fetch, Types
    <2>4. \A v \in Workers : rpc'[v] = "store" => rpc[v] = "store" \/ v = w
      BY <1>5 DEF Fetch, Types
    <2>5. \A v \in Workers : rpc'[v] = "store" => \A p \in load'[v] : Exists(p)
      BY <2>1, <2>4 DEF Types, ReadInv, Found
    <2> QED BY <1>5, <2>2, <2>3, <2>5 DEF Fetch, Types, ReadInv
  <1>6. CASE Store(w)
    <2>1. rpc' \in [Workers -> RunPCs]
      BY <1>0, <1>6 DEF Store, Types
    <2>2. \A v \in Workers : rpc'[v] # "idle" => rpc[v] # "idle"
      BY <1>6 DEF Store, Types
    <2>3. \A v \in Workers : rpc'[v] = "store" => rpc[v] = "store"
      BY <1>6 DEF Store, Types
    <2>4. cached' \subseteq Posts /\ \A p \in cached' : Exists(p)
      BY <1>6 DEF Store, Types, ReadInv
    <2> QED BY <1>6, <2>1, <2>2, <2>3, <2>4 DEF Store, Types, ReadInv
  <1>7. CASE Crash(w)
    <2>1. rpc' \in [Workers -> RunPCs]
      BY <1>0, <1>7 DEF Crash, Types
    <2>2. \A v \in Workers : rpc'[v] # "idle" => rpc'[v] = rpc[v]
      BY <1>7 DEF Crash, Types
    <2>3. crashes' \in 0..MaxCrashes
      BY <1>7, NumbersAssumption DEF Crash, Types
    <2> QED BY <1>7, <2>1, <2>2, <2>3 DEF Crash, Types, ReadInv
  <1> QED BY <1>1, <1>2, <1>3, <1>4, <1>5, <1>6, <1>7 DEF Rank

LEMMA TypesStep ==
  ASSUME Types, ReadInv, [Next]_vars
  PROVE  Types' /\ ReadInv'
  <1>1. CASE UNCHANGED vars
    BY <1>1 DEF vars, request, ranking, Types, ReadInv, Exists
  <1>2. ASSUME NEW p \in Posts, Expire(p) PROVE Types' /\ ReadInv'
    BY <1>2 DEF Expire, request, ranking, Types, ReadInv, Exists
  <1> QED BY <1>1, <1>2, RequestTypes, RunTypes DEF Next, Idle

\* Table, cache and hot list keep their types, and cache and hot list name only posts
\* that were stored (services/feed, workers/handlers/ranking.py).
THEOREM TypeCorrect == Spec => []TypeOK
  <1>1. Types /\ ReadInv /\ [Next]_vars => (Types /\ ReadInv)'
    BY TypesStep
  <1>2. Types /\ ReadInv => TypeOK
    BY DEF Types, ReadInv, Exists, TypeOK, ReqPCs, RunPCs
  <1> QED BY <1>1, <1>2, InitTypes, PTL DEF Spec

------------------------------------------------------------------------------
(* The hot list *)

\* With one worker and no run cut off, the temporary key is there only between the
\* two commands of a run, and holds what that run wrote.
HotInv ==
    \A w \in Workers :
      Workers = {w} /\ crashes = 0 =>
        /\ tmp = IF rpc[w] = "rename" THEN top[w] ELSE {}
        /\ rpc[w] # "idle" => Cardinality(top[w]) <= TopN
        /\ hot = latest /\ Cardinality(hot) <= TopN

LEMMA InitHot == Init => HotInv
  <1>1. Cardinality({}) = 0
    BY FS_EmptySet
  <1> QED BY <1>1, NumbersAssumption DEF Init, HotInv

LEMMA HotStep ==
  ASSUME Types, ReadInv, HotInv, [Next]_vars
  PROVE  HotInv'
  <1> USE DEF request, ranking, RankGoto
  <1> SUFFICES ASSUME NEW w \in Workers, Workers = {w}, crashes' = 0
               PROVE  /\ tmp' = IF rpc'[w] = "rename" THEN top'[w] ELSE {}
                      /\ rpc'[w] # "idle" => Cardinality(top'[w]) <= TopN
                      /\ hot' = latest' /\ Cardinality(hot') <= TopN
    BY DEF HotInv
  <1>1. ASSUME crashes = 0
        PROVE  /\ tmp = IF rpc[w] = "rename" THEN top[w] ELSE {}
               /\ rpc[w] # "idle" => Cardinality(top[w]) <= TopN
               /\ hot = latest /\ Cardinality(hot) <= TopN
    BY <1>1 DEF HotInv
  <1>2. CASE UNCHANGED <<hot, tmp, rpc, top, latest, crashes>>
    BY <1>1, <1>2
  <1>3. CASE Scan(w)
    BY <1>1, <1>3 DEF Scan, Types
  <1>4. CASE ZAdd(w)
    BY <1>1, <1>4 DEF ZAdd, Types
  <1>5. CASE Rename(w)
    BY <1>1, <1>5 DEF Rename, Types, ReadInv
  <1>6. CASE Mask(w) \/ Fetch(w) \/ Store(w)
    BY <1>1, <1>6 DEF Mask, Fetch, Store, Types
  <1>7. CASE Crash(w)
    BY <1>7 DEF Crash, Types
  <1>8. ASSUME NEW r \in Reqs, Start(r) \/ Handle(r)
        PROVE  UNCHANGED <<hot, tmp, rpc, top, latest, crashes>>
    BY <1>8 DEF Start, Handle, Get, Row, Insert, Set, Delete
  <1>9. ASSUME NEW p \in Posts, Expire(p)
        PROVE  UNCHANGED <<hot, tmp, rpc, top, latest, crashes>>
    BY <1>9 DEF Expire
  <1>10. CASE UNCHANGED vars
    BY <1>2, <1>10 DEF vars
  <1> QED BY <1>2, <1>3, <1>4, <1>5, <1>6, <1>7, <1>8, <1>9, <1>10 DEF Next, Rank, Idle

\* With one worker and no run cut off the hot list is that of the last run to rename,
\* and no longer than TOP_N (ranking.py 66-75).
THEOREM HotIsRanked == Spec => []HotIsOneRanking
  <1>1. Types /\ ReadInv /\ HotInv /\ [Next]_vars => (Types /\ ReadInv /\ HotInv)'
    BY TypesStep, HotStep
  <1>2. HotInv => HotIsOneRanking
    <2>1. Cardinality(Workers) = 1 => \E w : Workers = {w}
      BY WorkersAssumption, FS_Singleton
    <2> QED BY <2>1 DEF HotInv, HotIsOneRanking
  <1> QED BY <1>1, <1>2, InitTypes, InitHot, PTL DEF Spec
=============================================================================
