--------------------------- MODULE AccountsProofs ---------------------------
(* What Accounts guarantees for any number of people, names, accounts and     *)
(* posts, and however many calls are abandoned.                               *)
EXTENDS Accounts, TLAPS

Ops == {"none", "answer", "read", "register", "login", "sign", "unregister"} \cup Writes

Request == [op : Ops, who : Persons, by : Ids \cup {None},
            arg : Names \cup SUBSET Pairs, got : SUBSET Pairs]

\* Handlers pass on what the middleware and the path gave them: an account of the
\* caller, and pairs of that account.
Sound(c) ==
    /\ c.by # None => owner[c.by] = c.who
    /\ c.op \in {"register", "login"} => c.arg \in Names
    /\ c.op \in {"sign", "unregister"} \cup Writes => c.by \in Ids
    /\ c.op \in {"follow", "unfollow"} => c.arg \subseteq {c.by} \X Ids
    /\ c.op \in {"bookmark", "unbookmark"} => c.arg \subseteq {c.by} \X Posts
    /\ c.op \in {"read", "answer"} => c.arg \subseteq Pairs

\* The accounts of a pair were registered at some time.
Known(e) == name[e[1]] # None /\ (e[2] \in Ids => name[e[2]] # None)

\* users.username is UNIQUE: FindByUsername has one row to find.
OneAccountPerName == \A i, j \in users : name[i] = name[j] => i = j

\* The tables by themselves.
TablesOK ==
    /\ users \subseteq Ids
    /\ name \in [Ids -> Names \cup {None}] /\ owner \in [Ids -> Persons \cup {None}]
    /\ follows \subseteq Ids \X Ids /\ marks \subseteq Ids \X Posts
    /\ \A i \in Ids : (name[i] = None <=> owner[i] = None) /\ (i \in users => name[i] # None)
    /\ \A e \in marks : name[e[1]] # None
    /\ FollowsAreUsers /\ OneAccountPerName

\* Tokens and calls belong to who registered their account.
CallsOK ==
    /\ wallet \in [Persons -> SUBSET Ids]
    /\ call \in [Persons -> Request] /\ away \subseteq Request
    /\ calls \in [Persons -> 0..MaxCalls]
    /\ \A p \in Persons : call[p].who = p /\ Sound(call[p])
    /\ \A p \in Persons : \A i \in wallet[p] : owner[i] = p
    /\ \A c \in away : Sound(c)

\* What person p was told of pair e, if the answer was the set S, is still so.
Holds(p, e, S) ==
    (owner[e[1]] = p /\ e[1] \in users /\ e[2] \in users \cup Posts) =>
       (e \in S <=> e \in follows \cup marks)

AnswersOK ==
    \A p \in Persons :
      call[p].op = "answer" => /\ \A e \in call[p].got : Known(e)
                               /\ \A e \in call[p].arg : Holds(p, e, call[p].got)

IInv == TablesOK /\ CallsOK /\ AnswersOK

------------------------------------------------------------------------------
(* The statements *)

\* An account keeps its name and its owner, and a fresh one has no past.
LEMMA Kept ==
  ASSUME TablesOK, NEW c \in Request, Sound(c), Execute(c), NEW i \in Ids, name[i] # None
  PROVE  name'[i] = name[i] /\ owner'[i] = owner[i]
  BY DEF TablesOK, Execute, Register, Unregister, Follow, Unfollow, Bookmark, Unbookmark

\* A statement keeps the tables sound, also when it runs long after its call.
LEMMA TablesStep ==
  ASSUME TablesOK, NEW c \in Request, Sound(c), Execute(c)
  PROVE  TablesOK'
  <1> USE DEF TablesOK
  <1>1. CASE c.op = "register" /\ Register(c)
    <2>1. PICK i \in Ids : /\ name[i] = None
                           /\ users' = users \cup {i}
                           /\ name' = [name EXCEPT ![i] = c.arg]
                           /\ owner' = [owner EXCEPT ![i] = c.who]
      BY <1>1 DEF Register
    <2>2. c.arg \in Names /\ c.who \in Persons /\ UNCHANGED <<follows, marks>>
      BY <1>1 DEF Sound, Request, Register
    <2>3. OneAccountPerName'
      BY <1>1, <2>1, <2>2 DEF Register, Free, OneAccountPerName
    <2>4. FollowsAreUsers'
      BY <2>1, <2>2 DEF FollowsAreUsers
    <2>5. \A e \in marks : name'[e[1]] # None
      BY <2>1, <2>2, NoneAssumption
    <2>6. \A j \in Ids : (name'[j] = None <=> owner'[j] = None)
                         /\ (j \in users' => name'[j] # None)
      BY <2>1, <2>2, NoneAssumption
    <2> QED BY <2>1, <2>2, <2>3, <2>4, <2>5, <2>6
  <1>2. CASE c.op = "unregister" /\ Unregister(c)
    BY <1>2 DEF Unregister, Remaining, FollowsAreUsers, OneAccountPerName
  <1>3. CASE c.op = "follow" /\ Follow(c)
    BY <1>3 DEF Follow, Sound, FollowsAreUsers, OneAccountPerName
  <1>4. CASE c.op = "unfollow" /\ Unfollow(c)
    BY <1>4 DEF Unfollow, FollowsAreUsers, OneAccountPerName
  <1>5. CASE c.op = "bookmark" /\ Bookmark(c)
    <2>1. c.by \in Ids /\ c.arg \subseteq {c.by} \X Posts /\ owner[c.by] \in Persons
      BY <1>5, NoneAssumption DEF Sound, Request, Writes
    <2>2. name[c.by] # None
      BY <2>1, NoneAssumption
    <2> QED BY <1>5, <2>1, <2>2 DEF Bookmark, FollowsAreUsers, OneAccountPerName
  <1>6. CASE c.op = "unbookmark" /\ Unbookmark(c)
    BY <1>6 DEF Unbookmark, FollowsAreUsers, OneAccountPerName
  <1> QED BY <1>1, <1>2, <1>3, <1>4, <1>5, <1>6 DEF Execute

\* A call that was sound stays so, and what was known is known.
LEMMA SoundStays ==
  ASSUME TablesOK, NEW c \in Request, Sound(c), Execute(c),
         NEW d \in Request, Sound(d)
  PROVE  Sound(d)'
  <1>1. ASSUME d.by # None PROVE owner'[d.by] = owner[d.by]
    <2>1. d.by \in Ids /\ owner[d.by] \in Persons
      BY <1>1 DEF Sound, Request
    <2>2. name[d.by] # None
      BY <2>1, NoneAssumption DEF TablesOK
    <2> QED BY <2>1, <2>2, Kept
  <1> QED BY <1>1 DEF Sound

LEMMA KnownStays ==
  ASSUME TablesOK, NEW c \in Request, Sound(c), Execute(c), NEW e \in Pairs, Known(e)
  PROVE  Known(e)'
  BY Kept DEF Known, Pairs

\* What the statement is not about stays as it was.
LEMMA HoldsStays ==
  ASSUME TablesOK, NEW c \in Request, Sound(c), Execute(c), NEW p \in Persons,
         NEW S, NEW e \in Pairs,
         \A f \in S : Known(f), Holds(p, e, S), c.op \in Writes => e \notin c.arg
  PROVE  Holds(p, e, S)'
  <1> USE DEF TablesOK, Pairs
  <1>0. e[1] \in Ids /\ e[2] \in Ids \cup Posts /\ e = <<e[1], e[2]>>
    OBVIOUS
  <1>1. CASE c.op = "register" /\ Register(c)
    <2>1. PICK i \in Ids : /\ name[i] = None
                           /\ users' = users \cup {i}
                           /\ owner' = [owner EXCEPT ![i] = c.who]
      BY <1>1 DEF Register
    <2>2. UNCHANGED <<follows, marks>>
      BY <1>1 DEF Register
    <2>3. CASE i \in {e[1], e[2]}
      <3>1. e \notin S
        BY <2>1, <2>3 DEF Known
      <3>2. e \notin follows
        BY <2>1, <2>3 DEF FollowsAreUsers
      <3>3. e \notin marks
        BY <2>1, <2>3, IdsAssumption
      <3> QED BY <2>2, <3>1, <3>2, <3>3 DEF Holds
    <2>4. CASE i \notin {e[1], e[2]}
      BY <1>0, <2>1, <2>2, <2>4 DEF Holds
    <2> QED BY <2>3, <2>4
  <1>2. CASE c.op = "unregister" /\ Unregister(c)
    <2>1. /\ users' = users \ {c.by} /\ UNCHANGED <<name, owner, marks>>
          /\ follows' = {f \in follows : c.by \notin {f[1], f[2]}} /\ c.by \in Ids
      BY <1>2 DEF Unregister, Remaining, Sound
    <2>2. CASE c.by \in {e[1], e[2]}
      BY <1>0, <2>1, <2>2, IdsAssumption DEF Holds
    <2>3. CASE c.by \notin {e[1], e[2]}
      BY <1>0, <2>1, <2>3 DEF Holds
    <2> QED BY <2>2, <2>3
  <1>3. CASE c.op \in {"follow", "unfollow"} /\ (Follow(c) \/ Unfollow(c))
    BY <1>3 DEF Follow, Unfollow, Holds, Writes
  <1>4. CASE c.op \in {"bookmark", "unbookmark"} /\ (Bookmark(c) \/ Unbookmark(c))
    BY <1>4 DEF Bookmark, Unbookmark, Holds, Writes
  <1> QED BY <1>1, <1>2, <1>3, <1>4 DEF Execute
------------------------------------------------------------------------------
(* The calls *)

LEMMA InitOK == Init => IInv
  <1> SUFFICES ASSUME Init PROVE IInv
    OBVIOUS
  <1>1. TablesOK
    BY DEF Init, TablesOK, FollowsAreUsers, OneAccountPerName
  <1>2. ASSUME NEW p \in Persons
        PROVE  NoCall(p) \in Request /\ Sound(NoCall(p)) /\ NoCall(p).who = p
    BY DEF NoCall, Call, Request, Ops, Sound, Writes
  <1>3. CallsOK
    BY <1>2, BoundsAssumption DEF Init, CallsOK
  <1>4. AnswersOK
    BY DEF Init, AnswersOK, NoCall, Call
  <1> QED BY <1>1, <1>3, <1>4 DEF IInv

\* The middleware lets through what the person may ask.
LEMMA AuthorizedOK ==
  ASSUME TablesOK, CallsOK, NEW p \in Persons, NEW c \in Authorized(p)
  PROVE  c \in Request /\ Sound(c) /\ c.who = p /\ c.op # "answer"
  <1> USE DEF Call, Request, Ops, Writes, Sound, Pairs
  <1>1. CASE c \in Anonymous(p)
    BY <1>1 DEF Anonymous
  <1>2. CASE \E i \in wallet[p] : c \in WritesOf(p, i) \cup ReadsOf(p, i) \cup UnregisterOf(p, i)
    <2>1. PICK i \in wallet[p] : c \in WritesOf(p, i) \cup ReadsOf(p, i) \cup UnregisterOf(p, i)
      BY <1>2
    <2>2. i \in Ids /\ owner[i] = p
      BY DEF CallsOK
    <2>3. CASE c \in WritesOf(p, i)
      BY <2>2, <2>3 DEF WritesOf
    <2>4. CASE c \in UnregisterOf(p, i)
      BY <2>2, <2>4 DEF UnregisterOf
    <2>5. CASE c \in ReadsOf(p, i)
      <3>1. PICK S \in SUBSET Pairs : c = Call("read", p, i, S, {})
        BY <2>2, <2>5 DEF ReadsOf
      <3> QED BY <2>2, <3>1
    <2> QED BY <2>1, <2>3, <2>4, <2>5
  <1> QED BY <1>1, <1>2 DEF Authorized

\* The current call of one person becomes r; nothing else changes but the number
\* of calls.
LEMMA CallBecomes ==
  ASSUME IInv, NEW p \in Persons, NEW r \in Request, Sound(r), r.who = p,
         call' = [call EXCEPT ![p] = r], UNCHANGED <<tables, wallet, away>>,
         calls' \in [Persons -> 0..MaxCalls],
         r.op = "answer" => /\ \A e \in r.got : Known(e)
                            /\ \A e \in r.arg : Holds(p, e, r.got)
  PROVE  IInv'
  <1>1. TablesOK'
    BY DEF IInv, TablesOK, tables, FollowsAreUsers, OneAccountPerName
  <1>2. \A d \in Request : Sound(d)' <=> Sound(d)
    BY DEF Sound, tables
  <1>3. CallsOK'
    BY <1>2 DEF IInv, CallsOK, tables
  <1>4. AnswersOK'
    BY DEF IInv, CallsOK, AnswersOK, Holds, Known, tables
  <1> QED BY <1>1, <1>3, <1>4 DEF IInv

LEMMA NothingLeft ==
  ASSUME NEW p \in Persons
  PROVE  NoCall(p) \in Request /\ Sound(NoCall(p)) /\ NoCall(p).who = p
         /\ NoCall(p).op = "none"
  BY DEF NoCall, Call, Request, Ops, Sound, Writes

\* Steps that write no table and leave no call behind.
LEMMA QuietStep ==
  ASSUME IInv, NEW p \in Persons,
         Begin(p) \/ Read(p) \/ LoginFinds(p) \/ LoginRefused(p) \/ Fails(p)
  PROVE  IInv'
  <1>0. call[p] \in Request /\ Sound(call[p]) /\ call[p].who = p
    BY DEF IInv, CallsOK
  <1>1. CASE Begin(p)
    <2>1. PICK c \in Authorized(p) : call' = [call EXCEPT ![p] = c]
      BY <1>1 DEF Begin
    <2>2. c \in Request /\ Sound(c) /\ c.who = p /\ c.op # "answer"
      BY AuthorizedOK DEF IInv
    <2>3. calls' \in [Persons -> 0..MaxCalls]
      BY <1>1, BoundsAssumption DEF Begin, IInv, CallsOK
    <2> QED BY <1>1, <2>1, <2>2, <2>3, CallBecomes DEF Begin
  <1>2. CASE Read(p)
    <2> DEFINE c == call[p]
               r == Answer(c, Found(c))
    <2>1. c.arg \subseteq Pairs /\ c.op = "read"
      BY <1>0, <1>2 DEF Read, Sound
    <2>2. r \in Request /\ Sound(r) /\ r.who = p /\ r.got = Found(c) /\ r.arg = c.arg
      BY <1>0, <2>1 DEF Answer, Call, Found, Request, Ops, Sound, Writes
    <2>3. ASSUME NEW e \in Found(c) PROVE Known(e)
      BY <2>1, IdsAssumption DEF Found, Known, IInv, TablesOK, FollowsAreUsers
    <2>4. \A e \in c.arg : Holds(p, e, Found(c))
      BY DEF Found, Holds
    <2>5. /\ call' = [call EXCEPT ![p] = r] /\ UNCHANGED <<tables, wallet, away>>
          /\ calls' \in [Persons -> 0..MaxCalls]
      BY <1>2 DEF Read, IInv, CallsOK
    <2> HIDE DEF r
    <2> QED BY <2>2, <2>3, <2>4, <2>5, CallBecomes
  <1>3. CASE LoginFinds(p)
    <2>1. PICK i \in Match(call[p]) : call' = [call EXCEPT ![p] = [@ EXCEPT !.op = "sign", !.by = i]]
      BY <1>3 DEF LoginFinds
    <2> DEFINE r == [call[p] EXCEPT !.op = "sign", !.by = i]
    <2>2. i \in Ids /\ owner[i] = p
      BY <1>0 DEF Match, IInv, TablesOK
    <2>3. r \in Request /\ Sound(r) /\ r.who = p /\ r.op = "sign"
      BY <1>0, <2>2 DEF Request, Ops, Sound, Writes
    <2>4. calls' \in [Persons -> 0..MaxCalls]
      BY <1>3 DEF LoginFinds, IInv, CallsOK
    <2>5. call' = [call EXCEPT ![p] = r]
      BY <2>1
    <2> HIDE DEF r
    <2> QED BY <1>3, <2>3, <2>4, <2>5, CallBecomes DEF LoginFinds
  <1>4. CASE LoginRefused(p) \/ Fails(p)
    <2>1. /\ call' = [call EXCEPT ![p] = NoCall(p)] /\ UNCHANGED <<tables, wallet, away>>
          /\ calls' \in [Persons -> 0..MaxCalls]
      BY <1>4 DEF LoginRefused, Fails, IInv, CallsOK
    <2> QED BY <2>1, NothingLeft, CallBecomes
  <1> QED BY <1>1, <1>2, <1>3, <1>4

\* The statement of request c runs.  What each person has afterwards is what he had
\* before, or something sound.
LEMMA StatementRuns ==
  ASSUME IInv, NEW c \in Request, Sound(c), Execute(c), UNCHANGED <<wallet, calls>>,
         away' \subseteq away, NEW now \in [Persons -> Request], call' = now,
         \A p \in Persons : now[p].who = p /\ Sound(now[p])',
         \A p \in Persons : now[p].op = "answer" =>
             /\ \A e \in now[p].got : Known(e)'
             /\ \A e \in now[p].arg : Holds(p, e, now[p].got)'
  PROVE  IInv'
  <1>1. TablesOK'
    BY TablesStep DEF IInv
  <1>2. \A d \in away : Sound(d)'
    BY SoundStays DEF IInv, CallsOK
  <1>3. \A p \in Persons : \A i \in wallet[p] : owner'[i] = p
    <2> SUFFICES ASSUME NEW p \in Persons, NEW i \in wallet[p] PROVE owner'[i] = p
      OBVIOUS
    <2>1. i \in Ids /\ owner[i] = p /\ name[i] # None
      BY NoneAssumption DEF IInv, CallsOK, TablesOK
    <2> QED BY <2>1, Kept DEF IInv
  <1>4. CallsOK'
    BY <1>2, <1>3 DEF IInv, CallsOK
  <1>5. AnswersOK'
    BY DEF AnswersOK
  <1> QED BY <1>1, <1>4, <1>5 DEF IInv

\* The answers of those whom the statement does not answer.
LEMMA OthersKeep ==
  ASSUME IInv, NEW c \in Request, Sound(c), Execute(c),
         NEW p \in Persons, NEW a \in Request, a = call[p], a.op = "answer"
  PROVE  /\ \A e \in a.got : Known(e)'
         /\ \A e \in a.arg :
              (p # c.who \/ c.op \notin Writes \/ e \notin c.arg) => Holds(p, e, a.got)'
  <1>1. a.arg \subseteq Pairs /\ a.got \subseteq Pairs /\ TablesOK
    BY DEF IInv, CallsOK, Sound, Request
  <1>2. \A e \in a.got : Known(e)
    BY DEF IInv, AnswersOK
  <1>3. \A e \in a.got : Known(e)'
    BY <1>1, <1>2, KnownStays
  <1>4. ASSUME NEW e \in a.arg, p # c.who \/ c.op \notin Writes \/ e \notin c.arg
        PROVE  Holds(p, e, a.got)'
    <2>1. Holds(p, e, a.got)
      BY DEF IInv, AnswersOK
    <2>2. CASE c.op \in Writes => e \notin c.arg
      BY <1>1, <1>2, <2>1, <2>2, HoldsStays
    <2>3. CASE p # c.who /\ c.op \in Writes /\ e \in c.arg
      <3>1. c.by \in Ids /\ e[1] = c.by /\ owner[c.by] = c.who
        BY <2>3, NoneAssumption DEF Sound, Writes
      <3>2. UNCHANGED owner
        BY <2>3 DEF Execute, Writes, Follow, Unfollow, Bookmark, Unbookmark
      <3> QED BY <2>3, <3>1, <3>2 DEF Holds
    <2> QED BY <1>4, <2>2, <2>3
  <1> QED BY <1>3, <1>4

\* What a statement answers to its own person holds when it has run.
LEMMA AnswerTrue ==
  ASSUME IInv, NEW c \in Request, Sound(c), Execute(c), c.op \in Writes
  PROVE  /\ \A e \in Said(c) : Known(e)'
         /\ \A e \in c.arg : Holds(c.who, e, Said(c))'
  <1>1. /\ c.by \in Ids /\ owner[c.by] = c.who /\ name[c.by] # None
        /\ follows \subseteq Ids \X Ids /\ marks \subseteq Ids \X Posts
    BY NoneAssumption DEF Sound, IInv, TablesOK, Request
  <1>2. CASE c.op = "follow"
    <2>1. /\ \A e \in c.arg : {e[1], e[2]} \subseteq users
          /\ follows' = follows \cup c.arg /\ UNCHANGED <<users, name, owner, marks>>
          /\ Said(c) = c.arg
      BY <1>2 DEF Execute, Follow, Said
    <2> QED BY <1>1, <2>1, IdsAssumption DEF Known, Holds, IInv, TablesOK
  <1>3. CASE c.op = "unfollow"
    <2>1. /\ follows' = follows \ c.arg /\ UNCHANGED <<users, name, owner, marks>>
          /\ Said(c) = {} /\ c.arg \subseteq {c.by} \X Ids
      BY <1>3 DEF Execute, Unfollow, Said, Sound
    <2> QED BY <1>1, <2>1, IdsAssumption DEF Known, Holds
  <1>4. CASE c.op = "bookmark"
    <2>1. /\ marks' = marks \cup c.arg /\ UNCHANGED <<users, name, owner, follows>>
          /\ Said(c) = c.arg /\ c.arg \subseteq {c.by} \X Posts
      BY <1>4 DEF Execute, Bookmark, Said, Sound
    <2> QED BY <1>1, <2>1, IdsAssumption DEF Known, Holds
  <1>5. CASE c.op = "unbookmark"
    <2>1. /\ marks' = marks \ c.arg /\ UNCHANGED <<users, name, owner, follows>>
          /\ Said(c) = {} /\ c.arg \subseteq {c.by} \X Posts
      BY <1>5 DEF Execute, Unbookmark, Said, Sound
    <2> QED BY <1>1, <2>1, IdsAssumption DEF Known, Holds
  <1> QED BY <1>2, <1>3, <1>4, <1>5 DEF Writes

\* Person p has r when c has run, everybody else has what he had.
LEMMA OneCallRuns ==
  ASSUME IInv, NEW c \in Request, Sound(c), Execute(c), UNCHANGED <<wallet, calls>>,
         away' \subseteq away, NEW p \in Persons, p = c.who,
         NEW r \in Request, call' = [call EXCEPT ![p] = r], r.who = p, Sound(r),
         r.op = "answer" => /\ \A e \in r.got : Known(e)'
                            /\ \A e \in r.arg : Holds(p, e, r.got)'
  PROVE  IInv'
  <1>1. PICK now : now = [call EXCEPT ![p] = r]
    OBVIOUS
  <1>2. /\ now \in [Persons -> Request] /\ call' = now
        /\ \A q \in Persons : now[q] = IF q = p THEN r ELSE call[q]
    BY <1>1 DEF IInv, CallsOK
  <1>3. ASSUME NEW q \in Persons PROVE now[q].who = q /\ Sound(now[q])'
    <2>1. now[q] \in Request /\ now[q].who = q /\ Sound(now[q])
      BY <1>2 DEF IInv, CallsOK
    <2> QED BY <2>1, SoundStays DEF IInv
  <1>4. ASSUME NEW q \in Persons, now[q].op = "answer"
        PROVE  /\ \A e \in now[q].got : Known(e)'
               /\ \A e \in now[q].arg : Holds(q, e, now[q].got)'
    <2>1. CASE q = p
      BY <1>2, <1>4, <2>1
    <2>2. CASE q # p
      <3>1. PICK a \in Request : a = call[q]
        BY DEF IInv, CallsOK
      <3>2. now[q] = a
        BY <1>2, <2>2, <3>1
      <3> QED BY <1>4, <2>2, <3>1, <3>2, OthersKeep
    <2> QED BY <2>1, <2>2
  <1> QED BY <1>2, <1>3, <1>4, StatementRuns

LEMMA WriteStep ==
  ASSUME IInv, NEW p \in Persons, Write(p)
  PROVE  IInv'
  <1>1. PICK c \in Request : c = call[p] /\ Sound(c) /\ c.who = p
    BY DEF IInv, CallsOK
  <1>2. Execute(c) /\ UNCHANGED <<wallet, away, calls>>
    BY <1>1 DEF Write
  <1>3. CASE c.op \in Writes
    <2>1. call' = [call EXCEPT ![p] = Answer(c, Said(c))]
      BY <1>1, <1>3 DEF Write
    <2>2. c.arg \subseteq Pairs /\ Said(c) \subseteq c.arg
      BY <1>1, <1>3 DEF Sound, Writes, Pairs, Said
    <2>3. PICK r \in Request : r = Answer(c, Said(c))
      BY <1>1, <2>2 DEF Answer, Call, Request, Ops
    <2>4. r.who = p /\ Sound(r) /\ r.got = Said(c) /\ r.arg = c.arg
      BY <1>1, <1>3, <2>2, <2>3 DEF Answer, Call, Request, Sound, Writes
    <2>5. /\ \A e \in r.got : Known(e)'
          /\ \A e \in r.arg : Holds(p, e, r.got)'
      BY <1>1, <1>2, <1>3, <2>4, AnswerTrue
    <2>6. call' = [call EXCEPT ![p] = r]
      BY <2>1, <2>3
    <2> QED BY <1>1, <1>2, <2>4, <2>5, <2>6, OneCallRuns
  <1>4. CASE c.op \notin Writes
    <2>1. call' = [call EXCEPT ![p] = NoCall(p)]
      BY <1>1, <1>4 DEF Write
    <2> QED BY <1>1, <1>2, <2>1, NothingLeft, OneCallRuns
  <1> QED BY <1>3, <1>4

LEMMA LateStep ==
  ASSUME IInv, NEW c \in away, RunsLate(c)
  PROVE  IInv'
  <1>1. /\ c \in Request /\ Sound(c) /\ Execute(c) /\ c.who \in Persons
        /\ away' \subseteq away /\ UNCHANGED <<wallet, calls>>
    BY DEF IInv, CallsOK, RunsLate, Request
  <1>2. PICK a \in Request : a = call[c.who] /\ a.who = c.who /\ Sound(a)
    BY <1>1 DEF IInv, CallsOK
  <1>3. CASE a.op = "answer" /\ c.op \in Writes
    <2>1. a.arg \ c.arg \subseteq Pairs
      BY <1>2, <1>3 DEF Sound
    <2>2. PICK r \in Request : r = [a EXCEPT !.arg = a.arg \ c.arg]
      BY <2>1 DEF Request
    <2>3. r.who = a.who /\ Sound(r) /\ r.got = a.got /\ r.arg = a.arg \ c.arg
      BY <1>2, <1>3, <2>1, <2>2 DEF Request, Sound, Writes
    <2>4. call' = [call EXCEPT ![c.who] = r]
      <3>1. Voided(a, c) = r
        BY <1>3, <2>2 DEF Voided
      <3> QED BY <1>2, <3>1 DEF RunsLate
    <2>5. /\ \A e \in r.got : Known(e)'
          /\ \A e \in r.arg : Holds(c.who, e, r.got)'
      BY <1>1, <1>2, <1>3, <2>3, OthersKeep
    <2> QED BY <1>1, <1>2, <2>3, <2>4, <2>5, OneCallRuns
  <1>4. CASE ~(a.op = "answer" /\ c.op \in Writes)
    <2>1. call' = [call EXCEPT ![c.who] = a]
      BY <1>2, <1>4 DEF RunsLate, Voided
    <2>2. a.op = "answer" => /\ \A e \in a.got : Known(e)'
                             /\ \A e \in a.arg : Holds(c.who, e, a.got)'
      BY <1>1, <1>2, <1>4, OthersKeep
    <2> QED BY <1>1, <1>2, <2>1, <2>2, OneCallRuns
  <1> QED BY <1>3, <1>4

LEMMA Step == IInv /\ [Next]_vars => IInv'
  <1> SUFFICES ASSUME IInv, [Next]_vars PROVE IInv'
    OBVIOUS
  <1> USE DEF tables
  <1>1. CASE \E p \in Persons : \/ Begin(p) \/ Read(p) \/ LoginFinds(p) \/ LoginRefused(p)
                               \/ Fails(p) \/ Write(p)
    BY <1>1, QuietStep, WriteStep
  <1>2. CASE \E p \in Persons : Expire(p) \/ Sign(p) \/ GiveUp(p)
    <2>1. PICK p \in Persons : Expire(p) \/ Sign(p) \/ GiveUp(p)
      BY <1>2
    <2>2. call[p] \in Request /\ Sound(call[p]) /\ call[p].who = p
      BY DEF IInv, CallsOK
    <2>3. UNCHANGED <<users, name, owner, follows, marks, calls>>
      BY <2>1 DEF Expire, Sign, GiveUp
    <2>4. TablesOK' /\ \A d \in Request : Sound(d)' <=> Sound(d)
      BY <2>3 DEF IInv, TablesOK, Sound, FollowsAreUsers, OneAccountPerName
    <2>5. /\ call' \in [Persons -> Request]
          /\ \A q \in Persons : call'[q] = call[q] \/ call'[q] = NoCall(q)
      BY <2>1, NothingLeft DEF Expire, Sign, GiveUp, IInv, CallsOK
    <2>6. /\ wallet' \in [Persons -> SUBSET Ids]
          /\ \A q \in Persons : \A i \in wallet'[q] : owner[i] = q
      <3>1. CASE Sign(p)
        <4>1. call[p].by \in Ids /\ owner[call[p].by] = p
          BY <2>2, <3>1, NoneAssumption DEF Sign, Sound
        <4> QED BY <3>1, <4>1 DEF Sign, IInv, CallsOK
      <3>2. CASE Expire(p) \/ GiveUp(p)
        BY <3>2 DEF Expire, GiveUp, IInv, CallsOK
      <3> QED BY <2>1, <3>1, <3>2
    <2>7. away' \subseteq away \cup {call[p]}
      BY <2>1 DEF Expire, Sign, GiveUp
    <2>8. \A q \in Persons : call'[q].who = q /\ Sound(call'[q])
      BY <2>5, NothingLeft DEF IInv, CallsOK
    <2>9. CallsOK'
      BY <2>2, <2>3, <2>4, <2>5, <2>6, <2>7, <2>8 DEF IInv, CallsOK
    <2>10. AnswersOK'
      BY <2>3, <2>5, NothingLeft DEF IInv, AnswersOK, Holds, Known
    <2> QED BY <2>4, <2>9, <2>10 DEF IInv
  <1>3. CASE \E c \in away : RunsLate(c)
    BY <1>3, LateStep
  <1>4. CASE UNCHANGED vars \/ \E c \in away : Cancelled(c)
    <2>1. UNCHANGED <<tables, wallet, call, calls>> /\ away' \subseteq away
      BY <1>4 DEF vars, Cancelled
    <2>2. TablesOK'
      BY <2>1 DEF IInv, TablesOK, FollowsAreUsers, OneAccountPerName
    <2>3. CallsOK'
      BY <2>1 DEF IInv, CallsOK, Sound
    <2>4. AnswersOK'
      BY <2>1 DEF IInv, AnswersOK, Holds, Known
    <2> QED BY <2>2, <2>3, <2>4 DEF IInv
  <1> QED BY <1>1, <1>2, <1>3, <1>4 DEF Next

LEMMA Invariant == Spec => []IInv
  BY InitOK, Step, PTL DEF Spec

------------------------------------------------------------------------------

\* Accounts, follows, bookmarks and tokens keep their types.
THEOREM TypeCorrect == Spec => []TypeOK
  <1>1. IInv => TypeOK
    <2> SUFFICES ASSUME IInv PROVE TypeOK
      OBVIOUS
    <2>1. ASSUME NEW p \in Persons, NEW i \in wallet[p] \cup {call[p].by}, i # None
          PROVE  name[i] # None
      <3>1. call[p] \in Request /\ Sound(call[p]) /\ call[p].who = p
        BY DEF IInv, CallsOK
      <3>2. i \in Ids /\ owner[i] = p
        BY <2>1, <3>1 DEF IInv, CallsOK, Sound, Request
      <3> QED BY <3>2, NoneAssumption DEF IInv, TablesOK
    <2> QED BY <2>1 DEF IInv, TablesOK, CallsOK, TypeOK
  <1> QED BY <1>1, Invariant, PTL

\* Nobody acts as an account that another registered, although the row may go
\* between the steps of Login (service.go 43-60) and calls outlive it.
THEOREM ActAsOwn == Spec => []ActsAsOwn
  <1>1. IInv => ActsAsOwn
    <2> SUFFICES ASSUME IInv, NEW c \in away \cup Range(call), c.by # None
                 PROVE  owner[c.by] = c.who
      BY DEF ActsAsOwn, IInv, CallsOK
    <2>1. Sound(c)
      BY DEF IInv, CallsOK, Range
    <2> QED BY <2>1 DEF Sound
  <1> QED BY <1>1, Invariant, PTL

\* A follow joins accounts that exist, and a name has one owner, whatever runs late
\* (002_create_follows.up.sql, 001_create_users.up.sql).
THEOREM FollowsJoinUsers == Spec => [](FollowsAreUsers /\ OneAccountPerName)
  <1>1. IInv => FollowsAreUsers /\ OneAccountPerName
    BY DEF IInv, TablesOK
  <1> QED BY <1>1, Invariant, PTL

\* What a person was told last of his follows and bookmarks stays so until he asks
\* again (user/repo.go 106-190, interaction/repo.go 193-238).
THEOREM AnswersHold == Spec => []AnswerHolds
  <1>1. IInv => AnswerHolds
    BY DEF IInv, AnswersOK, Holds, AnswerHolds
  <1> QED BY <1>1, Invariant, PTL
=============================================================================
