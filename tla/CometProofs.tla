---------------------------- MODULE CometProofs ------------------------------
(* What Comet guarantees for every number of users, connections and pushes,   *)
(* every buffer size and every choice of tokens; last what it guarantees        *)
(* together with its clients: the server keeps what it does alone, and a        *)
(* connection that Dial returned can be pushed to.                              *)
EXTENDS CometClient, SequenceTheorems, TLAPS

------------------------------------------------------------------------------
(* Queues of frames *)

LEMMA AppendRange ==
  ASSUME NEW S, NEW s \in Seq(S), NEW f \in S
  PROVE  Append(s, f) \in Seq(S) /\ Range(Append(s, f)) = Range(s) \cup {f}
  <1>1. /\ Append(s, f) \in Seq(S) /\ Len(Append(s, f)) = Len(s) + 1
        /\ \A i \in 1 .. Len(s) : Append(s, f)[i] = s[i]
        /\ Append(s, f)[Len(s) + 1] = f
    BY AppendProperties
  <1>2. DOMAIN s = 1 .. Len(s) /\ DOMAIN Append(s, f) = 1 .. Len(s) + 1 /\ Len(s) \in Nat
    BY <1>1, LenProperties
  <1>3. \A i : i \in 1 .. Len(s) + 1 <=> i \in 1 .. Len(s) \/ i = Len(s) + 1
    BY <1>2
  <1> QED BY <1>1, <1>2, <1>3 DEF Range

LEMMA TailRange ==
  ASSUME NEW S, NEW s \in Seq(S), s # <<>>
  PROVE  /\ Head(s) \in S /\ Tail(s) \in Seq(S)
         /\ Range(s) = Range(Tail(s)) \cup {Head(s)}
  <1>1. /\ Head(s) \in S /\ Tail(s) \in Seq(S) /\ Len(Tail(s)) = Len(s) - 1
        /\ \A i \in 1 .. Len(Tail(s)) : Tail(s)[i] = s[i + 1]
    BY HeadTailProperties
  <1>2. /\ DOMAIN s = 1 .. Len(s) /\ DOMAIN Tail(s) = 1 .. Len(s) - 1
        /\ Len(s) \in Nat /\ Len(s) # 0 /\ Head(s) = s[1]
    BY <1>1, LenProperties, EmptySeq
  <1>3. Range(Tail(s)) \cup {Head(s)} \subseteq Range(s)
    BY <1>1, <1>2 DEF Range
  <1>4. ASSUME NEW i \in 1 .. Len(s), i # 1
        PROVE  i - 1 \in 1 .. Len(s) - 1 /\ Tail(s)[i - 1] = s[i]
    BY <1>1, <1>2, <1>4
  <1>5. Range(s) \subseteq Range(Tail(s)) \cup {Head(s)}
    BY <1>2, <1>4 DEF Range
  <1> QED BY <1>1, <1>3, <1>5

------------------------------------------------------------------------------
(* Types.  The induction also needs what the local variables of a goroutine   *)
(* hold where it uses them.                                                   *)

LocalsSet ==
    /\ \A c \in Conns : reader[c] = "bind" => authUser[c] \in Tokens[c]
    /\ \A c \in Conns : writer[c] = "writing" => holding[c] \in Frames
    /\ \A q \in Pushes : pusher[q] = "enqueue" => cur[q] \in Conns

LEMMA FrameKinds == {Zero, AuthOk} \subseteq Frames /\ Pushes \subseteq Frames
  BY DEF Frames

\* A write puts the frame at the end of the channel or nowhere.
LEMMA EnqueueType ==
  ASSUME TypeOK, NEW c \in Conns, NEW f \in Frames, Enqueue(c, f)
  PROVE  /\ send' \in [Conns -> Seq(Frames)]
         /\ \A d \in Conns \ {c} : send'[d] = send[d]
         /\ send'[c] = Append(send[c], f)
         /\ Range(send'[c]) = Range(send[c]) \cup {f}
  <1>1. send[c] \in Seq(Frames)
    BY DEF TypeOK
  <1>2. Append(send[c], f) \in Seq(Frames)
        /\ Range(Append(send[c], f)) = Range(send[c]) \cup {f}
    BY <1>1, AppendRange
  <1> QED BY <1>2 DEF Enqueue, TypeOK

LEMMA WriteType ==
  ASSUME TypeOK, NEW c \in Conns, NEW f \in Frames, Write(c, f)
  PROVE  /\ send' \in [Conns -> Seq(Frames)]
         /\ \A d \in Conns \ {c} : send'[d] = send[d]
         /\ \/ send'[c] = send[c]
            \/ Range(send'[c]) = Range(send[c]) \cup {f}
  <1>1. CASE Enqueue(c, f)
    BY <1>1, EnqueueType
  <1>2. CASE UNCHANGED send
    BY <1>2 DEF TypeOK
  <1> QED BY <1>1, <1>2 DEF Write

LEMMA InitType == Init => TypeOK /\ LocalsSet
  <1> SUFFICES ASSUME Init PROVE TypeOK /\ LocalsSet
    OBVIOUS
  <1>1. <<>> \in Seq(Frames)
    OBVIOUS
  <1>2. /\ send \in [Conns -> Seq(Frames)] /\ received \in [Conns -> Seq(Frames)]
        /\ heard \in [Conns -> Nat]
    BY <1>1 DEF Init
  <1>3. /\ reader \in [Conns -> ReaderPCs] /\ writer \in [Conns -> WriterPCs]
        /\ pusher \in [Pushes -> PusherPCs]
    BY DEF Init, ReaderPCs, WriterPCs, PusherPCs
  <1> QED BY <1>2, <1>3 DEF Init, TypeOK, LocalsSet

LEMMA ReaderType ==
  ASSUME TypeOK, LocalsSet, NEW c \in Conns, Accept(c) \/ ReaderStep(c)
  PROVE  TypeOK'
  <1> USE DEF manager, push
  <1>0. {"none", "read", "bind", "reply", "pop", "gone"} \subseteq ReaderPCs
        /\ "idle" \in WriterPCs
    BY DEF ReaderPCs, WriterPCs
  <1>1. CASE Accept(c)
    BY <1>0, <1>1 DEF Accept, TypeOK
  <1>2. ASSUME Read(c) PROVE heard' \in [Conns -> Nat]
    BY <1>2 DEF Read, TypeOK
  <1>3. CASE ReadHeartbeat(c)
    BY <1>2, <1>3, WriteType, FrameKinds DEF ReadHeartbeat, TypeOK
  <1>4. CASE ReadBadAuth(c)
    BY <1>2, <1>4, WriteType, FrameKinds DEF ReadBadAuth, TypeOK
  <1>5. CASE ReadAuth(c)
    <2>1. PICK u \in Tokens[c] : authUser' = [authUser EXCEPT ![c] = u]
      BY <1>5 DEF ReadAuth
    <2>2. u \in Users
      BY TokensAssumption
    <2> QED BY <1>0, <1>2, <1>5, <2>1, <2>2 DEF ReadAuth, TypeOK
  <1>6. CASE ReadOther(c)
    BY <1>2, <1>6 DEF ReadOther, TypeOK
  <1>7. CASE Bind(c)
    <2>1. authUser[c] \in Users
      BY <1>7, TokensAssumption DEF Bind, LocalsSet
    <2> QED BY <1>0, <1>7, <2>1 DEF Bind, TypeOK
  <1>9. CASE Reply(c)
    BY <1>0, <1>9, WriteType, FrameKinds DEF Reply, TypeOK
  <1>10. CASE ReadError(c)
    BY <1>0, <1>10 DEF ReadError, TypeOK
  <1>11. CASE Pop(c)
    BY <1>0, <1>11 DEF Pop, Leave, TypeOK
  <1> QED BY <1>1, <1>3, <1>4, <1>5, <1>6, <1>7, <1>9, <1>10, <1>11
       DEF ReaderStep

LEMMA WriterType ==
  ASSUME TypeOK, LocalsSet, NEW c \in Conns, WriterStep(c)
  PROVE  /\ TypeOK'
         /\ UNCHANGED <<manager, reader, authUser, push, heard, authed>>
  <1> USE DEF manager, push
  <1>0. {"none", "idle", "writing", "done"} \subseteq WriterPCs
    BY DEF WriterPCs
  <1>1. CASE Take(c)
    <2>1. send[c] \in Seq(Frames) /\ send[c] # <<>>
      BY <1>1 DEF Take, TypeOK
    <2>2. Head(send[c]) \in Frames /\ Tail(send[c]) \in Seq(Frames)
      BY <2>1, TailRange
    <2> QED BY <1>0, <1>1, <2>2 DEF Take, TypeOK
  <1>2. CASE WriteOk(c)
    <2>1. received[c] \in Seq(Frames) /\ holding[c] \in Frames
      BY <1>2 DEF TypeOK, LocalsSet, WriteOk
    <2>2. Append(received[c], holding[c]) \in Seq(Frames)
      BY <1>2, <2>1, AppendRange
    <2> QED BY <1>0, <1>2, <2>2 DEF WriteOk, TypeOK
  <1>3. CASE WriteFail(c)
    BY <1>0, <1>3 DEF WriteFail, TypeOK
  <1>4. CASE PumpStop(c)
    BY <1>0, <1>4 DEF PumpStop, TypeOK
  <1> QED BY <1>1, <1>2, <1>3, <1>4 DEF WriterStep

LEMMA PusherType ==
  ASSUME TypeOK, LocalsSet, NEW q \in Pushes, Snapshot(q) \/ PushStep(q)
  PROVE  TypeOK'
  <1> USE DEF manager, Members, Rest, NextConn, DropFull
  <1>0. {"idle", "check", "enqueue", "done"} \subseteq PusherPCs
    BY DEF PusherPCs
  <1>1. CASE Snapshot(q)
    <2>1. PICK u \in Users : /\ target' = [target EXCEPT ![q] = u]
                             /\ todo' = [todo EXCEPT ![q] = rooms[u]]
      BY <1>1 DEF Snapshot
    <2> QED BY <1>0, <1>1, <2>1 DEF Snapshot, TypeOK
  <1>2. CASE CheckClosed(q)
    <2>1. PICK c \in todo[q] :
            /\ todo' = [todo EXCEPT ![q] = @ \ {c}]
            /\ \/ closed[c] /\ UNCHANGED <<pusher, cur>>
               \/ /\ ~closed[c]
                  /\ cur' = [cur EXCEPT ![q] = c]
                  /\ pusher' = [pusher EXCEPT ![q] = "enqueue"]
      BY <1>2 DEF CheckClosed
    <2>2. c \in Conns
      BY DEF TypeOK
    <2>3. todo' \in [Pushes -> SUBSET Conns]
      BY <2>1 DEF TypeOK
    <2>4. pusher' \in [Pushes -> PusherPCs]
      BY <1>0, <2>1 DEF TypeOK
    <2>5. cur' \in [Pushes -> Conns \cup {None}]
      BY <2>1, <2>2 DEF TypeOK
    <2>6. UNCHANGED <<manager, send, closed, reader, authUser, writer, holding,
                      target, acked, heard, authed, received>>
      BY <1>2, Zenon DEF CheckClosed
    <2> QED BY <2>3, <2>4, <2>5, <2>6 DEF TypeOK
  <1>3. CASE TrySend(q)
    <2>0. cur[q] \in Conns
      BY <1>3 DEF TrySend, LocalsSet
    <2>1. send' \in [Conns -> Seq(Frames)]
      BY <1>3, <2>0, EnqueueType, FrameKinds DEF TrySend, TypeOK
    <2>2. acked' \in [Pushes -> SUBSET Conns]
      <3>1. \/ acked' = [acked EXCEPT ![q] = @ \cup {cur[q]}]
            \/ acked' = acked
        BY <1>3 DEF TrySend
      <3>2. acked[q] \cup {cur[q]} \in SUBSET Conns
        BY <2>0 DEF TypeOK
      <3> QED BY <3>1, <3>2 DEF TypeOK
    <2>3. /\ pusher' \in [Pushes -> PusherPCs]
          /\ cur' \in [Pushes -> Conns \cup {None}]
      BY <1>0, <1>3 DEF TrySend, TypeOK
    <2> QED BY <1>3, <2>1, <2>2, <2>3 DEF TrySend, TypeOK
  <1>4. CASE Return(q)
    BY <1>0, <1>4 DEF Return, TypeOK
  <1> QED BY <1>1, <1>2, <1>3, <1>4 DEF PushStep

LEMMA StepType ==
  ASSUME TypeOK, LocalsSet, [Next]_vars
  PROVE  TypeOK' /\ LocalsSet'
  <1> USE DEF manager, push
  <1>1. ASSUME NEW c \in Conns, Accept(c) \/ ReaderStep(c)
        PROVE  TypeOK' /\ LocalsSet'
    <2>1. TypeOK'
      BY <1>1, ReaderType
    <2>2. UNCHANGED <<writer, holding, pusher, cur>> \/ Accept(c)
      BY <1>1 DEF ReaderStep, ReadHeartbeat, ReadBadAuth, ReadAuth, ReadOther,
                  Bind, Reply, ReadError, Pop
    <2>3. \A d \in Conns : writer'[d] = "writing" => holding'[d] \in Frames
      BY <2>2 DEF Accept, LocalsSet, TypeOK
    <2>4. \A q \in Pushes : pusher'[q] = "enqueue" => cur'[q] \in Conns
      BY <2>2 DEF Accept, LocalsSet
    <2>5. \A d \in Conns : reader'[d] = "bind" => authUser'[d] \in Tokens[d]
      <3>1. CASE ReadAuth(c)
        BY <3>1 DEF ReadAuth, LocalsSet, TypeOK
      <3>2. CASE ~ReadAuth(c)
        BY <1>1, <3>2 DEF Accept, ReaderStep, ReadHeartbeat, ReadBadAuth,
           ReadOther, Bind, Reply, ReadError, Pop, LocalsSet, TypeOK
      <3> QED BY <3>1, <3>2
    <2> QED BY <2>1, <2>3, <2>4, <2>5 DEF LocalsSet
  <1>2. ASSUME NEW c \in Conns, WriterStep(c) PROVE TypeOK' /\ LocalsSet'
    <2>1. TypeOK' /\ UNCHANGED <<reader, authUser, pusher, cur>>
      BY <1>2, WriterType
    <2>2. \A d \in Conns : writer'[d] = "writing" => holding'[d] \in Frames
      <3>1. CASE Take(c)
        <4>1. send[c] \in Seq(Frames) /\ send[c] # <<>>
          BY <3>1 DEF Take, TypeOK
        <4>2. Head(send[c]) \in Frames
          BY <4>1, TailRange
        <4> QED BY <3>1, <4>2 DEF Take, LocalsSet, TypeOK
      <3>2. CASE ~Take(c)
        BY <1>2, <3>2 DEF WriterStep, WriteOk, WriteFail, PumpStop, LocalsSet, TypeOK
      <3> QED BY <3>1, <3>2
    <2> QED BY <2>1, <2>2 DEF LocalsSet
  <1>3. ASSUME NEW q \in Pushes, Snapshot(q) \/ PushStep(q)
        PROVE  TypeOK' /\ LocalsSet'
    <2>1. TypeOK' /\ UNCHANGED <<reader, authUser, writer, holding>>
      BY <1>3, PusherType DEF PushStep, Snapshot, CheckClosed, TrySend, Return
    <2>2. \A p \in Pushes : pusher'[p] = "enqueue" => cur'[p] \in Conns
      <3>1. CASE CheckClosed(q)
        <4>1. PICK c \in todo[q] :
                \/ UNCHANGED <<pusher, cur>>
                \/ cur' = [cur EXCEPT ![q] = c] /\ pusher' = [pusher EXCEPT ![q] = "enqueue"]
          BY <3>1 DEF CheckClosed
        <4>2. c \in Conns
          BY DEF TypeOK
        <4> QED BY <4>1, <4>2 DEF LocalsSet, TypeOK
      <3>2. CASE ~CheckClosed(q)
        BY <1>3, <3>2 DEF PushStep, Snapshot, TrySend, NextConn, DropFull, Return, LocalsSet, TypeOK
      <3> QED BY <3>1, <3>2
    <2> QED BY <2>1, <2>2 DEF LocalsSet
  <1>4. CASE UNCHANGED vars
    BY <1>4 DEF vars, TypeOK, LocalsSet
  <1> QED BY <1>1, <1>2, <1>3, <1>4 DEF Next, Quiet

\* The state of the push server keeps its types (pkg/comet).
THEOREM TypeCorrect == Spec => []TypeOK
  <1>1. TypeOK /\ LocalsSet /\ [Next]_vars => (TypeOK /\ LocalsSet)'
    BY StepType
  <1> QED BY <1>1, InitType, PTL DEF Spec

------------------------------------------------------------------------------
(* Rooms.  connRoom names the room of a connection, which Pop then finds,     *)
(* unless the connection was bound to another room since.                     *)

\* Connection c was bound to a room other than u.
Elsewhere(c, u) == \E v \in authed[c] : v # u

RoomsInv ==
    \A c \in Conns :
        /\ reader[c] = "gone" => connRoom[c] = None
        /\ \A u \in Users : c \in rooms[u] => connRoom[c] = u \/ Elsewhere(c, u)

LEMMA RoomsStep ==
  ASSUME TypeOK, LocalsSet, RoomsInv, [Next]_vars
  PROVE  RoomsInv'
  <1> USE DEF manager, push
  <1>1. ASSUME NEW c \in Conns, Accept(c) \/ ReaderStep(c) PROVE RoomsInv'
    <2>1. CASE Bind(c)
      <3>1. authUser[c] \in Tokens[c] /\ authUser[c] \in Users
        BY <2>1, TokensAssumption DEF Bind, LocalsSet
      <3>2. \A d \in Conns : reader'[d] = "gone" => connRoom'[d] = None
        BY <2>1 DEF Bind, RoomsInv, TypeOK
      <3>3. ASSUME NEW d \in Conns, NEW u \in Users, d \in rooms'[u]
            PROVE  connRoom'[d] = u \/ Elsewhere(d, u)'
        <4>1. /\ connRoom' = [connRoom EXCEPT ![c] = authUser[c]]
              /\ authed' = [authed EXCEPT ![c] = @ \cup {authUser[c]}]
              /\ rooms' = [rooms EXCEPT ![authUser[c]] = @ \cup {c}]
          BY <2>1 DEF Bind
        <4>2. CASE d = c
          BY <4>1, <4>2 DEF Elsewhere, TypeOK
        <4>3. CASE d # c
          <5>1. d \in rooms[u] /\ connRoom'[d] = connRoom[d] /\ authed'[d] = authed[d]
            BY <3>1, <3>3, <4>1, <4>3 DEF TypeOK
          <5> QED BY <5>1 DEF RoomsInv, Elsewhere
        <4> QED BY <4>2, <4>3
      <3> QED BY <3>2, <3>3 DEF RoomsInv
    <2>2. CASE Pop(c)
      <3>1. /\ \A u \in Users : rooms'[u] = IF u = connRoom[c] THEN rooms[u] \ {c}
                                                              ELSE rooms[u]
            /\ connRoom' = [connRoom EXCEPT ![c] = None]
        BY <2>2 DEF Pop, Leave
      <3>2. \A d \in Conns : reader'[d] = "gone" => connRoom'[d] = None
        BY <2>2, <3>1 DEF Pop, RoomsInv, TypeOK
      <3>3. ASSUME NEW d \in Conns, NEW u \in Users, d \in rooms'[u]
            PROVE  connRoom'[d] = u \/ Elsewhere(d, u)'
        <4>1. d \in rooms[u] /\ (d # c \/ u # connRoom[c])
          BY <3>1, <3>3
        <4>2. connRoom[d] = u \/ Elsewhere(d, u)
          BY <4>1 DEF RoomsInv
        <4>3. (d # c => connRoom'[d] = connRoom[d]) /\ (Elsewhere(d, u) => Elsewhere(d, u)')
          BY <2>2, <3>1 DEF Pop, Elsewhere, TypeOK
        <4> QED BY <4>1, <4>2, <4>3
      <3> QED BY <3>2, <3>3 DEF RoomsInv
    <2>3. CASE ~Bind(c) /\ ~Pop(c)
      <3>1. UNCHANGED <<rooms, connRoom, authed>>
        BY <1>1, <2>3 DEF Accept, ReaderStep, ReadHeartbeat, ReadBadAuth, ReadAuth,
           ReadOther, Reply, ReadError
      <3>2. \A d \in Conns : reader'[d] = "gone" => reader[d] = "gone"
        BY <1>1, <2>3 DEF Accept, ReaderStep, ReadHeartbeat, ReadBadAuth, ReadAuth,
           ReadOther, Reply, ReadError, TypeOK
      <3> QED BY <3>1, <3>2 DEF RoomsInv, Elsewhere
    <2> QED BY <2>1, <2>2, <2>3
  <1>2. CASE \/ \E c \in Conns : WriterStep(c)
             \/ \E q \in Pushes : Snapshot(q) \/ PushStep(q)
             \/ UNCHANGED vars
    <2>1. UNCHANGED <<rooms, connRoom, reader, authed>>
      BY <1>2 DEF WriterStep, Take, WriteOk, WriteFail, PumpStop, PushStep,
         Snapshot, CheckClosed, TrySend, Return, vars
    <2> QED BY <2>1 DEF RoomsInv, Elsewhere
  <1> QED BY <1>1, <1>2 DEF Next, Quiet

LEMMA InitRooms == Init => RoomsInv
  BY DEF Init, RoomsInv

\* A connection that is gone is in no room, unless it was bound to another room
\* after that one (ConnManager.Bind and Pop, conn_manager.go 33-65).
THEOREM NoGhosts == Spec => []NoGhost
  <1>1. RoomsInv => NoGhost
    BY UsersAssumption DEF RoomsInv, NoGhost, Elsewhere
  <1>2. TypeOK /\ LocalsSet /\ RoomsInv /\ [Next]_vars
        => (TypeOK /\ LocalsSet /\ RoomsInv)'
    BY StepType, RoomsStep
  <1> QED BY <1>1, <1>2, InitType, InitRooms, PTL DEF Spec

------------------------------------------------------------------------------
(* Isolation.  A push keeps the connections of its room in a snapshot that    *)
(* may be stale when it writes; what never goes stale is that each of them    *)
(* was bound to the room by a token of its user.                              *)

Isolated ==
    /\ \A c \in Conns : authed[c] \subseteq Tokens[c]
    /\ \A c \in Conns, u \in Users : c \in rooms[u] => u \in authed[c]
    /\ \A q \in Pushes : pusher[q] = "idle" => target[q] = None
    /\ \A q \in Pushes : \A c \in todo[q] : target[q] \in authed[c]
    /\ \A q \in Pushes : pusher[q] = "enqueue" => target[q] \in authed[cur[q]]
    /\ \A c \in Conns, q \in Pushes : q \in Reaching(c) => target[q] \in authed[c]

\* Replies of the reader goroutine are not pushes.
LEMMA ReaderReaching ==
  ASSUME TypeOK, NEW c \in Conns, Accept(c) \/ ReaderStep(c),
         NEW d \in Conns, NEW q \in Pushes, q \in Reaching(d)'
  PROVE  q \in Reaching(d)
  <1> USE DEF manager, push
  <1>1. q \notin {Zero, AuthOk}
    BY PushesAssumption
  <1>2. UNCHANGED <<holding, received>>
    BY DEF Accept, ReaderStep, ReadHeartbeat, ReadBadAuth, ReadAuth, ReadOther,
           Bind, Reply, ReadError, Pop
  <1>3. q \in Range(send'[d]) => q \in Range(send[d])
    <2>1. CASE \E f \in {Zero, AuthOk} : Write(c, f)
      <3>1. PICK f \in {Zero, AuthOk} : Write(c, f)
        BY <2>1
      <3>2. f \in Frames /\ f # q
        BY <1>1, FrameKinds
      <3>3. /\ \A e \in Conns \ {c} : send'[e] = send[e]
            /\ \/ send'[c] = send[c]
               \/ Range(send'[c]) = Range(send[c]) \cup {f}
        BY <3>1, <3>2, WriteType
      <3> QED BY <3>2, <3>3
    <2>2. CASE UNCHANGED send
      BY <2>2
    <2> QED BY <2>1, <2>2 DEF Accept, ReaderStep, ReadHeartbeat, ReadBadAuth,
               ReadAuth, ReadOther, Bind, Reply, ReadError, Pop
  <1> QED BY <1>2, <1>3 DEF Reaching

\* WritePump only moves frames.
LEMMA WriterReaching ==
  ASSUME TypeOK, LocalsSet, NEW c \in Conns, WriterStep(c),
         NEW d \in Conns, NEW f \in Frames, f \in Reaching(d)'
  PROVE  f \in Reaching(d)
  <1> USE DEF manager, push
  <1>1. f # None
    BY PushesAssumption DEF Frames
  <1>2. CASE Take(c)
    <2>1. send[c] \in Seq(Frames) /\ send[c] # <<>>
      BY <1>2 DEF Take, TypeOK
    <2>2. Range(send[c]) = Range(Tail(send[c])) \cup {Head(send[c])}
      BY <2>1, TailRange
    <2>3. /\ send'[d] = IF d = c THEN Tail(send[c]) ELSE send[d]
          /\ holding'[d] = IF d = c THEN Head(send[c]) ELSE holding[d]
          /\ received' = received
      BY <1>2 DEF Take, TypeOK
    <2> QED BY <2>2, <2>3 DEF Reaching
  <1>3. CASE WriteOk(c)
    <2>1. received[c] \in Seq(Frames) /\ holding[c] \in Frames
      BY <1>3 DEF WriteOk, TypeOK, LocalsSet
    <2>2. Range(Append(received[c], holding[c])) = Range(received[c]) \cup {holding[c]}
      BY <2>1, AppendRange
    <2>3. /\ received'[d] = IF d = c THEN Append(received[c], holding[c]) ELSE received[d]
          /\ holding'[d] = IF d = c THEN None ELSE holding[d]
          /\ send' = send
      BY <1>3 DEF WriteOk, TypeOK
    <2> QED BY <1>1, <2>2, <2>3 DEF Reaching
  <1>4. CASE WriteFail(c)
    <2>1. /\ holding'[d] = IF d = c THEN None ELSE holding[d]
          /\ UNCHANGED <<send, received>>
      BY <1>4 DEF WriteFail, TypeOK
    <2> QED BY <1>1, <2>1 DEF Reaching
  <1>5. CASE PumpStop(c)
    BY <1>5 DEF PumpStop, Reaching
  <1> QED BY <1>2, <1>3, <1>4, <1>5 DEF WriterStep

\* A push adds itself to the connection whose flag it has read.
LEMMA PushReaching ==
  ASSUME TypeOK, LocalsSet, NEW p \in Pushes, Snapshot(p) \/ PushStep(p),
         NEW d \in Conns, NEW f \in Frames, f \in Reaching(d)'
  PROVE  \/ f \in Reaching(d)
         \/ TrySend(p) /\ p = f /\ cur[p] = d
  <1>1. CASE TrySend(p) /\ Enqueue(cur[p], p)
    <2>1. cur[p] \in Conns
      BY <1>1 DEF TrySend, LocalsSet
    <2>2. /\ \A e \in Conns \ {cur[p]} : send'[e] = send[e]
          /\ Range(send'[cur[p]]) = Range(send[cur[p]]) \cup {p}
      BY <1>1, <2>1, EnqueueType, FrameKinds
    <2>3. UNCHANGED <<holding, received>>
      BY <1>1 DEF TrySend
    <2> QED BY <1>1, <2>1, <2>2, <2>3 DEF Reaching
  <1>2. CASE UNCHANGED <<send, holding, received>>
    BY <1>2 DEF Reaching
  <1> QED BY <1>1, <1>2 DEF PushStep, Snapshot, CheckClosed, TrySend, DropFull, Return

LEMMA IsolatedStep ==
  ASSUME TypeOK, LocalsSet, Isolated, [Next]_vars
  PROVE  Isolated'
  <1> USE DEF manager, push
  <1>1. ASSUME NEW c \in Conns, Accept(c) \/ ReaderStep(c) PROVE Isolated'
    <2>1. UNCHANGED <<pusher, target, todo, cur>>
      BY <1>1 DEF Accept, ReaderStep, ReadHeartbeat, ReadBadAuth, ReadAuth,
         ReadOther, Bind, Reply, ReadError, Pop
    <2>2. /\ \A d \in Conns : authed[d] \subseteq authed'[d] /\ authed'[d] \subseteq Tokens[d]
          /\ \A d \in Conns, u \in Users : d \in rooms'[u] => u \in authed'[d]
      <3>1. CASE Bind(c)
        <4>1. authUser[c] \in Tokens[c] /\ authUser[c] \in Users
          BY <3>1, TokensAssumption DEF Bind, LocalsSet
        <4>2. /\ \A d \in Conns : authed'[d] = IF d = c THEN authed[c] \cup {authUser[c]}
                                                        ELSE authed[d]
              /\ \A u \in Users : rooms'[u] = IF u = authUser[c] THEN rooms[u] \cup {c}
                                                                 ELSE rooms[u]
          BY <3>1 DEF Bind, TypeOK
        <4>3. \A d \in Conns : authed[d] \subseteq authed'[d] /\ authed'[d] \subseteq Tokens[d]
          BY <4>1, <4>2 DEF Isolated
        <4>4. ASSUME NEW d \in Conns, NEW u \in Users, d \in rooms'[u]
              PROVE  u \in authed'[d]
          <5>1. d \in rooms[u] \/ (d = c /\ u = authUser[c])
            BY <4>2, <4>4
          <5> QED BY <4>2, <5>1 DEF Isolated
        <4> QED BY <4>3, <4>4
      <3>2. CASE Pop(c)
        BY <3>2 DEF Pop, Leave, Isolated
      <3>3. CASE UNCHANGED <<rooms, authed>>
        BY <3>3 DEF Isolated
      <3> QED BY <1>1, <3>1, <3>2, <3>3 DEF Accept, ReaderStep, ReadHeartbeat,
           ReadBadAuth, ReadAuth, ReadOther, Reply, ReadError
    <2>3. \A d \in Conns, q \in Pushes : q \in Reaching(d)' => target[q] \in authed'[d]
      BY <1>1, <2>2, ReaderReaching DEF Isolated
    <2>4. \A q \in Pushes : \A d \in todo[q] : target[q] \in authed'[d]
      BY <2>2 DEF Isolated, TypeOK
    <2>5. \A q \in Pushes : pusher[q] = "enqueue" => target[q] \in authed'[cur[q]]
      BY <2>2 DEF Isolated, LocalsSet
    <2> QED BY <2>1, <2>2, <2>3, <2>4, <2>5 DEF Isolated
  <1>2. ASSUME NEW c \in Conns, WriterStep(c) PROVE Isolated'
    <2>1. UNCHANGED <<pusher, target, todo, cur, authed, rooms>>
      BY <1>2 DEF WriterStep, Take, WriteOk, WriteFail, PumpStop
    <2>2. \A d \in Conns, q \in Pushes : q \in Reaching(d)' => q \in Reaching(d)
      BY <1>2, WriterReaching, FrameKinds
    <2> QED BY <2>1, <2>2 DEF Isolated
  <1>3. ASSUME NEW p \in Pushes, Snapshot(p) \/ PushStep(p) PROVE Isolated'
    <2>1. UNCHANGED <<authed, rooms>>
      BY <1>3 DEF PushStep, Snapshot, CheckClosed, TrySend, Return
    <2>2. CASE Snapshot(p)
      <3>1. PICK u \in Users : /\ target' = [target EXCEPT ![p] = u]
                               /\ todo' = [todo EXCEPT ![p] = rooms[u]]
        BY <2>2 DEF Snapshot, Members
      <3>2. /\ pusher[p] = "idle" /\ pusher' = [pusher EXCEPT ![p] = "check"]
            /\ UNCHANGED <<send, holding, received, cur>>
        BY <2>2 DEF Snapshot
      <3>3. \A d \in Conns : p \notin Reaching(d)
        BY <3>2, UsersAssumption, TokensAssumption DEF Isolated
      <3>4. \A d \in Conns, q \in Pushes : q \in Reaching(d)' => target'[q] \in authed[d]
        BY <3>1, <3>2, <3>3 DEF Reaching, Isolated, TypeOK
      <3>5. \A q \in Pushes : \A d \in todo'[q] : target'[q] \in authed[d]
        BY <3>1 DEF Isolated, TypeOK
      <3>6. \A q \in Pushes : pusher'[q] \in {"idle", "enqueue"} =>
              q # p /\ pusher[q] = pusher'[q] /\ target'[q] = target[q]
        BY <3>1, <3>2 DEF TypeOK
      <3> QED BY <2>1, <3>2, <3>4, <3>5, <3>6 DEF Isolated
    <2>3. CASE CheckClosed(p)
      <3>1. PICK c \in todo[p] :
              /\ todo' = [todo EXCEPT ![p] = @ \ {c}]
              /\ \/ UNCHANGED <<pusher, cur>>
                 \/ /\ cur' = [cur EXCEPT ![p] = c]
                    /\ pusher' = [pusher EXCEPT ![p] = "enqueue"]
        BY <2>3 DEF CheckClosed, Rest
      <3>2. UNCHANGED <<target, send, holding, received>>
        BY <2>3 DEF CheckClosed
      <3>3. \A q \in Pushes : pusher'[q] = "enqueue" => target[q] \in authed[cur'[q]]
        BY <3>1 DEF Isolated, TypeOK
      <3>4. \A q \in Pushes : pusher'[q] = "idle" => pusher[q] = "idle"
        BY <3>1 DEF TypeOK
      <3>5. \A q \in Pushes : todo'[q] \subseteq todo[q]
        BY <3>1 DEF TypeOK
      <3> QED BY <2>1, <3>2, <3>3, <3>4, <3>5 DEF Isolated, Reaching
    <2>4. CASE TrySend(p) \/ Return(p)
      <3>1. /\ UNCHANGED <<target, todo>>
            /\ \A q \in Pushes : pusher'[q] \in {"idle", "enqueue"} =>
                 pusher[q] = pusher'[q] /\ cur'[q] = cur[q]
        BY <2>4 DEF TrySend, NextConn, DropFull, Return, TypeOK
      <3>2. \A d \in Conns, q \in Pushes : q \in Reaching(d)' =>
              q \in Reaching(d) \/ target[q] \in authed[d]
        BY <1>3, PushReaching, FrameKinds DEF TrySend, Isolated
      <3> QED BY <2>1, <3>1, <3>2 DEF Isolated
    <2> QED BY <1>3, <2>2, <2>3, <2>4 DEF PushStep
  <1>4. CASE UNCHANGED vars
    BY <1>4 DEF vars, Isolated, Reaching
  <1> QED BY <1>1, <1>2, <1>3, <1>4 DEF Next, Quiet

LEMMA InitIsolated == Init => Isolated
  <1>1. ASSUME Init, NEW c \in Conns, NEW q \in Pushes PROVE q \notin Reaching(c)
    BY <1>1, PushesAssumption DEF Init, Reaching, Range
  <1> QED BY <1>1 DEF Init, Isolated

\* A push for a user reaches only connections that presented a valid token of
\* that user (handleAuth and PushToRoom, server.go 131-150, conn_manager.go
\* 75-97).
THEOREM PushesIsolated == Spec => []PushIsolation
  <1>1. Isolated => PushIsolation
    BY DEF Isolated, PushIsolation
  <1>2. TypeOK /\ LocalsSet /\ Isolated /\ [Next]_vars
        => (TypeOK /\ LocalsSet /\ Isolated)'
    BY StepType, IsolatedStep
  <1> QED BY <1>1, <1>2, InitType, InitIsolated, PTL DEF Spec

------------------------------------------------------------------------------
(* Counting.  A connection is counted when it is given the frame, and a push  *)
(* turns to each connection of its snapshot once.                             *)

LEMMA AppendOnce ==
  ASSUME NEW S, NEW s \in Seq(S), NEW f \in S, NEW q,
         AtMostOnce(s, q), f = q => q \notin Range(s)
  PROVE  AtMostOnce(Append(s, f), q)
  <1>1. /\ DOMAIN s = 1 .. Len(s) /\ DOMAIN Append(s, f) = 1 .. Len(s) + 1
        /\ \A i \in 1 .. Len(s) : Append(s, f)[i] = s[i]
        /\ Append(s, f)[Len(s) + 1] = f /\ Len(s) \in Nat
    BY AppendProperties, LenProperties
  <1>2. \A i : i \in 1 .. Len(s) + 1 <=> i \in 1 .. Len(s) \/ i = Len(s) + 1
    BY <1>1
  <1>3. f = q => \A i \in 1 .. Len(s) : s[i] # q
    BY <1>1 DEF Range
  <1> QED BY <1>1, <1>2, <1>3 DEF AtMostOnce

LEMMA TailOnce ==
  ASSUME NEW S, NEW s \in Seq(S), s # <<>>, NEW q, AtMostOnce(s, q)
  PROVE  AtMostOnce(Tail(s), q) /\ (Head(s) = q => q \notin Range(Tail(s)))
  <1>1. /\ DOMAIN Tail(s) = 1 .. Len(s) - 1 /\ DOMAIN s = 1 .. Len(s)
        /\ \A i \in 1 .. Len(s) - 1 : Tail(s)[i] = s[i + 1]
        /\ Head(s) = s[1] /\ Len(s) \in Nat /\ Len(s) # 0
    BY HeadTailProperties, LenProperties, EmptySeq
  <1>2. \A i \in 1 .. Len(s) - 1 : i + 1 \in 1 .. Len(s) /\ i + 1 # 1
    BY <1>1
  <1>3. 1 \in 1 .. Len(s)
    BY <1>1
  <1>4. ASSUME NEW i \in 1 .. Len(s) - 1, NEW j \in 1 .. Len(s) - 1,
               Tail(s)[i] = q, Tail(s)[j] = q
        PROVE  i = j
    <2>1. i + 1 = j + 1
      BY <1>1, <1>2, <1>4 DEF AtMostOnce
    <2> QED BY <2>1
  <1>5. Head(s) = q => \A i \in 1 .. Len(s) - 1 : Tail(s)[i] # q
    BY <1>1, <1>2, <1>3 DEF AtMostOnce
  <1> QED BY <1>1, <1>4, <1>5 DEF AtMostOnce, Range

\* What a client is to get was counted, and is in one place.
Handed(c, q) ==
    /\ q \in Reaching(c) => c \in acked[q]
    /\ AtMostOnce(send[c], q) /\ AtMostOnce(received[c], q) /\ OneStage(c, q)

Counted ==
    /\ \A q \in Pushes : pusher[q] = "idle" => acked[q] = {}
    /\ \A q \in Pushes : acked[q] \cap todo[q] = {}
    /\ \A q \in Pushes : pusher[q] = "enqueue" => cur[q] \notin acked[q] \cup todo[q]

LEMMA InitCounted == Init => Counted /\ \A c \in Conns, q \in Pushes : Handed(c, q)
  <1>1. ASSUME Init, NEW c \in Conns, NEW q \in Pushes PROVE Handed(c, q)
    BY <1>1, PushesAssumption DEF Init, Handed, Reaching, Range, AtMostOnce, OneStage
  <1> QED BY <1>1 DEF Init, Counted

LEMMA CountedStep ==
  ASSUME TypeOK, LocalsSet, Counted, [Next]_vars
  PROVE  Counted'
  <1> USE DEF manager, push
  <1>1. CASE UNCHANGED push
    BY <1>1 DEF Counted
  <1>2. ASSUME NEW p \in Pushes, Snapshot(p) PROVE Counted'
    <2>1. /\ pusher[p] = "idle" /\ pusher' = [pusher EXCEPT ![p] = "check"]
          /\ UNCHANGED <<acked, cur>>
          /\ \A q \in Pushes \ {p} : todo'[q] = todo[q]
      BY <1>2 DEF Snapshot, TypeOK
    <2>2. \A q \in Pushes : acked[q] \cap todo'[q] = {}
      BY <2>1 DEF Counted
    <2> QED BY <2>1, <2>2 DEF Counted, TypeOK
  <1>3. ASSUME NEW p \in Pushes, CheckClosed(p) PROVE Counted'
    <2>1. PICK c \in todo[p] :
            /\ todo' = [todo EXCEPT ![p] = @ \ {c}]
            /\ \/ UNCHANGED <<pusher, cur>>
               \/ /\ cur' = [cur EXCEPT ![p] = c]
                  /\ pusher' = [pusher EXCEPT ![p] = "enqueue"]
      BY <1>3 DEF CheckClosed, Rest
    <2>2. acked' = acked /\ pusher[p] = "check"
      BY <1>3 DEF CheckClosed
    <2>3. \A q \in Pushes : todo'[q] = IF q = p THEN todo[p] \ {c} ELSE todo[q]
      BY <2>1 DEF TypeOK
    <2>4. c \notin acked[p]
      BY <2>1 DEF Counted
    <2>5. ASSUME NEW q \in Pushes, pusher'[q] = "enqueue"
          PROVE  cur'[q] \notin acked[q] \cup todo'[q]
      <3>1. CASE q = p
        BY <2>1, <2>2, <2>3, <2>4, <2>5, <3>1 DEF TypeOK
      <3>2. CASE q # p
        BY <2>1, <2>3, <2>5, <3>2 DEF TypeOK, Counted
      <3> QED BY <3>1, <3>2
    <2>6. \A q \in Pushes : pusher'[q] = "idle" => pusher[q] = "idle"
      BY <2>1 DEF TypeOK
    <2> QED BY <2>2, <2>3, <2>5, <2>6 DEF Counted
  <1>4. ASSUME NEW p \in Pushes, TrySend(p) PROVE Counted'
    <2>1. /\ todo' = todo /\ pusher[p] = "enqueue"
          /\ pusher' = [pusher EXCEPT ![p] = "check"] /\ cur' = [cur EXCEPT ![p] = None]
      BY <1>4 DEF TrySend, NextConn, DropFull
    <2>2. \A q \in Pushes : acked'[q] \subseteq IF q = p THEN acked[p] \cup {cur[p]} ELSE acked[q]
      BY <1>4 DEF TrySend, DropFull, TypeOK
    <2>3. \A q \in Pushes : pusher'[q] \in {"idle", "enqueue"} =>
            q # p /\ pusher[q] = pusher'[q] /\ cur'[q] = cur[q]
      BY <2>1 DEF TypeOK
    <2>4. \A q \in Pushes : acked'[q] \cap todo[q] = {}
      BY <2>1, <2>2 DEF Counted
    <2> QED BY <2>1, <2>2, <2>3, <2>4 DEF Counted
  <1>5. ASSUME NEW p \in Pushes, Return(p) PROVE Counted'
    BY <1>5 DEF Return, Counted, TypeOK
  <1>6. ASSUME NEW c \in Conns, Accept(c) \/ ReaderStep(c) \/ WriterStep(c)
        PROVE  UNCHANGED push
    BY <1>6 DEF Accept, ReaderStep, ReadHeartbeat, ReadBadAuth, ReadAuth,
       ReadOther, Bind, Reply, ReadError, Pop, WriterStep, Take, WriteOk, WriteFail, PumpStop
  <1> QED BY <1>1, <1>2, <1>3, <1>4, <1>5, <1>6 DEF Next, Quiet, PushStep, vars

LEMMA HandedStep ==
  ASSUME TypeOK, LocalsSet, Counted, [Next]_vars,
         NEW d \in Conns, NEW q \in Pushes, Handed(d, q)
  PROVE  Handed(d, q)'
  <1> USE DEF manager, push
  <1>0. /\ q \in Frames /\ q # None /\ q # Zero /\ q # AuthOk
        /\ send[d] \in Seq(Frames) /\ received[d] \in Seq(Frames)
    BY PushesAssumption, FrameKinds DEF TypeOK, Frames
  \* Nothing of connection d changes.
  <1>1. CASE /\ send'[d] = send[d] /\ received'[d] = received[d]
             /\ holding'[d] \in {holding[d], None} /\ acked[q] \subseteq acked'[q]
    BY <1>0, <1>1 DEF Handed, Reaching, OneStage
  <1>2. ASSUME NEW f \in Frames, f # q, send'[d] = Append(send[d], f),
               UNCHANGED <<holding, received, acked>>
        PROVE  Handed(d, q)'
    <2>1. Range(send'[d]) = Range(send[d]) \cup {f}
      BY <1>0, <1>2, AppendRange
    <2>2. AtMostOnce(send'[d], q)
      BY <1>0, <1>2, AppendOnce DEF Handed
    <2> QED BY <1>2, <2>1, <2>2 DEF Handed, Reaching, OneStage
  <1>3. ASSUME NEW c \in Conns, Accept(c) \/ ReaderStep(c) PROVE Handed(d, q)'
    <2>1. UNCHANGED <<holding, received, acked>>
      BY <1>3 DEF Accept, ReaderStep, ReadHeartbeat, ReadBadAuth, ReadAuth, ReadOther,
         Bind, Reply, ReadError, Pop
    <2>2. UNCHANGED send \/ \E f \in {Zero, AuthOk} : Write(c, f)
      BY <1>3 DEF Accept, ReaderStep, ReadHeartbeat, ReadBadAuth, ReadAuth, ReadOther,
         Bind, Reply, ReadError, Pop
    <2>3. send'[d] = send[d] \/ \E f \in {Zero, AuthOk} : send'[d] = Append(send[d], f)
      BY <2>2 DEF Write, Enqueue, TypeOK
    <2> QED BY <1>0, <1>1, <1>2, <2>1, <2>3, FrameKinds
  <1>4. ASSUME NEW c \in Conns, WriterStep(c) PROVE Handed(d, q)'
    <2>1. acked' = acked
      BY <1>4 DEF WriterStep, Take, WriteOk, WriteFail, PumpStop
    <2>2. CASE c # d \/ WriteFail(c) \/ PumpStop(c)
      BY <1>1, <1>4, <2>1, <2>2 DEF WriterStep, Take, WriteOk, WriteFail, PumpStop, TypeOK
    <2>3. CASE c = d /\ Take(c)
      <3>1. /\ send[d] # <<>> /\ send'[d] = Tail(send[d]) /\ holding'[d] = Head(send[d])
            /\ received' = received
        BY <2>3 DEF Take, TypeOK
      <3>2. Range(send[d]) = Range(Tail(send[d])) \cup {Head(send[d])}
        BY <1>0, <3>1, TailRange
      <3>3. AtMostOnce(send'[d], q) /\ (holding'[d] = q => q \notin Range(send'[d]))
        BY <1>0, <3>1, TailOnce DEF Handed
      <3> QED BY <2>1, <3>1, <3>2, <3>3 DEF Handed, Reaching, OneStage
    <2>4. CASE c = d /\ WriteOk(c)
      <3>1. /\ received'[d] = Append(received[d], holding[d]) /\ holding'[d] = None
            /\ holding[d] \in Frames /\ send' = send
        BY <2>4 DEF WriteOk, LocalsSet, TypeOK
      <3>2. Range(received'[d]) = Range(received[d]) \cup {holding[d]}
        BY <1>0, <3>1, AppendRange
      <3>3. AtMostOnce(received'[d], q)
        BY <1>0, <3>1, AppendOnce DEF Handed, OneStage
      <3> QED BY <1>0, <2>1, <3>1, <3>2, <3>3 DEF Handed, Reaching, OneStage
    <2> QED BY <1>4, <2>2, <2>3, <2>4 DEF WriterStep
  <1>5. ASSUME NEW p \in Pushes, TrySend(p) PROVE Handed(d, q)'
    <2>1. UNCHANGED <<holding, received>> /\ acked[q] \subseteq acked'[q]
      BY <1>5 DEF TrySend, DropFull, TypeOK
    <2>2. CASE Enqueue(cur[p], p) /\ cur[p] = d
      <3>1. /\ send'[d] = Append(send[d], p) /\ pusher[p] = "enqueue"
            /\ UNCHANGED <<holding, received>>
        BY <1>5, <2>2 DEF Enqueue, TypeOK, TrySend
      <3>2. CASE p = q
        <4>1. acked'[q] = acked[q] \cup {d}
          BY <1>5, <2>2, <3>1, <3>2, <1>0 DEF TrySend, DropFull, TypeOK, Enqueue
        <4>2. q \notin Reaching(d)
          BY <2>2, <3>1, <3>2 DEF Counted, Handed
        <4>3. Range(send'[d]) = Range(send[d]) \cup {q} /\ AtMostOnce(send'[d], q)
          BY <1>0, <3>1, <3>2, <4>2, AppendRange, AppendOnce DEF Handed, Reaching
        <4> QED BY <3>1, <4>1, <4>2, <4>3 DEF Handed, Reaching, OneStage
      <3>3. CASE p # q
        <4>1. Range(send'[d]) = Range(send[d]) \cup {p} /\ AtMostOnce(send'[d], q)
          BY <1>0, <3>1, <3>3, AppendRange, AppendOnce, FrameKinds DEF Handed
        <4> QED BY <2>1, <3>1, <3>3, <4>1 DEF Handed, Reaching, OneStage
      <3> QED BY <3>2, <3>3
    <2>3. CASE ~(Enqueue(cur[p], p) /\ cur[p] = d)
      <3>1. send'[d] = send[d]
        BY <1>5, <2>3 DEF TrySend, DropFull, Enqueue, TypeOK
      <3> QED BY <1>1, <2>1, <3>1
    <2> QED BY <2>2, <2>3
  <1>6. ASSUME NEW p \in Pushes, Snapshot(p) \/ CheckClosed(p) \/ Return(p)
        PROVE  Handed(d, q)'
    BY <1>1, <1>6 DEF Snapshot, CheckClosed, Return
  <1>7. CASE UNCHANGED vars
    BY <1>1, <1>7 DEF vars
  <1> QED BY <1>3, <1>4, <1>5, <1>6, <1>7 DEF Next, Quiet, PushStep

\* The delivered count covers every client that sees the message, and none sees it
\* twice (PushToRoom, conn_manager.go 75-97; Conn.Write and WritePump, ws/conn.go).
THEOREM CountsDelivered == Spec => []DeliveredCovers
  <1> DEFINE Inv == /\ TypeOK /\ LocalsSet /\ Counted
                    /\ \A c \in Conns, q \in Pushes : Handed(c, q)
  <1>1. Init => Inv
    BY InitType, InitCounted
  <1>2. Inv /\ [Next]_vars => Inv'
    BY StepType, CountedStep, HandedStep
  <1>3. Inv => DeliveredCovers
    BY DEF DeliveredCovers, Handed
  <1> HIDE DEF Inv
  <1> QED BY <1>1, <1>2, <1>3, PTL DEF Spec

------------------------------------------------------------------------------
(* With its clients the server takes no step it cannot take by itself *)

LEMMA ClientAlone ==
  ASSUME NEW c \in Conns, ClientStep(c)
  PROVE  UNCHANGED vars
  BY DEF ClientStep, Dial, DialReply, DialFails, Hear, Hangup, SendTests, SendQueues, Pump

LEMMA ServerAlone == [CNext]_allvars => [Next]_vars
  <1> SUFFICES ASSUME [CNext]_allvars PROVE [Next]_vars
    OBVIOUS
  <1>1. CASE \E c \in Conns : ClientStep(c)
    BY <1>1, ClientAlone
  <1>2. CASE \E c \in Conns : ServerStep(c)
    BY <1>2 DEF ServerStep, ServerReads, ReaderStep, Next
  <1>3. CASE \E q \in Pushes : (Snapshot(q) \/ PushStep(q)) /\ UNCHANGED client
    BY <1>3 DEF Next
  <1>4. CASE AllGone \/ UNCHANGED allvars
    BY <1>4 DEF AllGone, allvars, Next
  <1> QED BY <1>1, <1>2, <1>3, <1>4 DEF CNext

\* The push server under real clients is the push server of Comet: their words are
\* among the frames that Comet has it read, and all else they do it does not see
\* (client/conn.go 56-220, comet/server.go 88-152).
THEOREM ServerIsComet == CSpec => Init /\ [][Next]_vars
  <1>1. CInit => Init
    BY DEF CInit
  <1> QED BY <1>1, ServerAlone, PTL DEF CSpec

LEMMA ServerInv == CSpec => [](TypeOK /\ LocalsSet /\ RoomsInv /\ Isolated)
  <1>1. CInit => TypeOK /\ LocalsSet /\ RoomsInv /\ Isolated
    BY InitType, InitRooms, InitIsolated DEF CInit
  <1>2. TypeOK /\ LocalsSet /\ RoomsInv /\ Isolated /\ [Next]_vars
        => (TypeOK /\ LocalsSet /\ RoomsInv /\ Isolated)'
    BY StepType, RoomsStep, IsolatedStep
  <1> QED BY <1>1, <1>2, ServerAlone, PTL DEF CSpec

\* With real clients, too, a push reaches only connections that presented a token
\* of its user, and no connection stays in a room when it is gone.
THEOREM ServerKeepsRooms == CSpec => [](PushIsolation /\ NoGhost)
  <1>1. RoomsInv /\ Isolated => PushIsolation /\ NoGhost
    BY UsersAssumption DEF Isolated, PushIsolation, RoomsInv, NoGhost, Elsewhere
  <1> QED BY <1>1, ServerInv, PTL

\* What a push reports as delivered covers every client that is to see it, each of them
\* once, also when the clients are those of the client library (conn_manager.go 75-97).
THEOREM CountsUnderClients == CSpec => []DeliveredCovers
  <1> DEFINE Inv == /\ TypeOK /\ LocalsSet /\ Counted
                    /\ \A c \in Conns, q \in Pushes : Handed(c, q)
  <1>1. Init => Inv
    BY InitType, InitCounted
  <1>2. Inv /\ [Next]_vars => Inv'
    BY StepType, CountedStep, HandedStep
  <1>3. Inv => DeliveredCovers
    BY DEF DeliveredCovers, Handed
  <1> HIDE DEF Inv
  <1> QED BY <1>1, <1>2, <1>3, ServerIsComet, PTL

------------------------------------------------------------------------------
(* The two streams of a connection *)

LEMMA AppendGrows ==
  ASSUME NEW S, NEW s \in Seq(S), NEW f \in S
  PROVE  /\ Append(s, f) \in Seq(S) /\ Len(Append(s, f)) = Len(s) + 1 /\ Len(s) \in Nat
         /\ \A i \in 1..Len(s) : Append(s, f)[i] = s[i]
         /\ Append(s, f)[Len(s) + 1] = f
  BY AppendProperties, LenProperties

\* What a client has received stays received.
LEMMA ReceivedGrows ==
  ASSUME TypeOK, LocalsSet, [Next]_vars, NEW c \in Conns
  PROVE  /\ Len(received[c]) \in Nat /\ Len(received'[c]) \in Nat
         /\ Len(received[c]) <= Len(received'[c])
         /\ \A i \in 1..Len(received[c]) : received'[c][i] = received[c][i]
  <1> USE DEF manager, push
  <1>0. received[c] \in Seq(Frames) /\ Len(received[c]) \in Nat
    BY LenProperties DEF TypeOK
  <1>1. CASE \E d \in Conns : WriteOk(d)
    <2>1. PICK d \in Conns : WriteOk(d)
      BY <1>1
    <2>2. holding[d] \in Frames
      BY <2>1 DEF LocalsSet, WriteOk
    <2>3. received'[c] = IF c = d THEN Append(received[c], holding[d]) ELSE received[c]
      BY <2>1 DEF WriteOk, TypeOK
    <2> QED BY <1>0, <2>2, <2>3, AppendGrows
  <1>2. CASE UNCHANGED received
    BY <1>0, <1>2
  <1> QED BY <1>1, <1>2 DEF Next, Quiet, vars, Accept, ReaderStep, ReadHeartbeat, ReadBadAuth,
       ReadAuth, ReadOther, Bind, Reply, ReadError, Pop, WriterStep, Take, WriteFail,
       PumpStop, Snapshot, PushStep, CheckClosed, TrySend, Return

Words == {Auth, BadAuth, Message}

\* A client in state s that wrote w and read g of the n frames it was sent, and of
\* whose frames h were read, first authenticates, then sends messages; nobody reads
\* ahead.
StreamOK(s, w, g, h, n) ==
    /\ g <= n /\ h <= Len(w)
    /\ s = "off" => w = <<>>
    /\ w # <<>> => w[1] \in {Auth, BadAuth}
    /\ \A i \in 1..Len(w) : i # 1 => w[i] = Message
    /\ s \in {"off", "wait"} => g = 0
    /\ s \in {"wait", "open", "closed", "refused"} => w # <<>>

Streams ==
    /\ state \in [Conns -> ClientStates]
    /\ up \in [Conns -> Seq(Words)] /\ queue \in [Conns -> Seq({Message})]
    /\ sender \in [Conns -> {"idle", "queue"}] /\ got \in [Conns -> Nat]
    /\ \A c \in Conns : StreamOK(state[c], up[c], got[c], heard[c], Len(received[c]))

LEMMA InitStreams == CInit => Streams
  BY DEF CInit, Init, Streams, StreamOK, ClientStates, Words

\* Steps of the server leave the client alone, and read what it wrote.
LEMMA ServerStreams ==
  ASSUME TypeOK, LocalsSet, Streams, [Next]_vars, UNCHANGED client,
         \A c \in Conns : heard'[c] = heard[c] \/ (heard[c] < Len(up[c]) /\ heard'[c] = heard[c] + 1)
  PROVE  Streams'
  <1>1. ASSUME NEW c \in Conns
        PROVE  StreamOK(state[c], up[c], got[c], heard'[c], Len(received'[c]))
    <2>1. /\ Len(up[c]) \in Nat /\ heard[c] \in Nat /\ got[c] \in Nat
          /\ StreamOK(state[c], up[c], got[c], heard[c], Len(received[c]))
      BY LenProperties DEF Streams, TypeOK
    <2>2. got[c] <= Len(received'[c]) /\ heard'[c] <= Len(up[c])
      BY <2>1, ReceivedGrows DEF StreamOK
    <2> QED BY <2>1, <2>2 DEF StreamOK
  <1> QED BY <1>1 DEF Streams, client

LEMMA ServerReadsOn ==
  ASSUME TypeOK, [CNext]_allvars, UNCHANGED client, NEW c \in Conns
  PROVE  heard'[c] = heard[c] \/ (heard[c] < Len(up[c]) /\ heard'[c] = heard[c] + 1)
  <1>1. CASE \E d \in Conns : ServerReads(d)
    <2>1. PICK d \in Conns : ServerReads(d)
      BY <1>1
    <2>2. heard[d] < Len(up[d]) /\ heard' = [heard EXCEPT ![d] = @ + 1]
      BY <2>1 DEF ServerReads, ReadAuth, ReadBadAuth, ReadOther, Read
    <2> QED BY <2>2 DEF TypeOK
  <1>2. CASE UNCHANGED heard
    BY <1>2
  <1>3. CASE \E d \in Conns : ClientStep(d)
    BY <1>3, ClientAlone DEF vars
  <1> QED BY <1>1, <1>2, <1>3 DEF CNext, ServerStep, AllGone, Quiet, allvars, vars, Accept, Bind, Reply,
       ReadError, Pop, WriterStep, Take, WriteOk, WriteFail, PumpStop, Snapshot, PushStep,
       CheckClosed, TrySend, Return

LEMMA ClientStreams ==
  ASSUME TypeOK, Streams, NEW c \in Conns, ClientStep(c)
  PROVE  Streams'
  <1>0. UNCHANGED vars
    BY ClientAlone
  <1>1. UNCHANGED <<received, heard>>
    BY <1>0 DEF vars
  <1>2. /\ Len(received[c]) \in Nat /\ Len(up[c]) \in Nat /\ heard[c] \in Nat /\ got[c] \in Nat
        /\ StreamOK(state[c], up[c], got[c], heard[c], Len(received[c]))
    BY LenProperties DEF TypeOK, Streams
  <1>3. /\ \A d \in Conns : d # c => state'[d] = state[d] /\ up'[d] = up[d] /\ got'[d] = got[d]
        /\ sender' \in [Conns -> {"idle", "queue"}]
    BY DEF ClientStep, Dial, DialReply, DialFails, Hear, Hangup, SendTests, SendQueues, Pump,
           Enter, ReadFrame, Streams
  <1>4. CASE Dial(c)
    <2>1. CASE \E f \in {Auth, BadAuth} : up' = [up EXCEPT ![c] = <<f>>] /\ Enter(c, "wait")
      <3>1. PICK f \in {Auth, BadAuth} : up' = [up EXCEPT ![c] = <<f>>] /\ Enter(c, "wait")
        BY <2>1
      <3>2. PICK w \in Seq(Words) : w = <<f>> /\ Len(w) = 1 /\ w[1] = f /\ w # <<>>
        <4>1. <<f>> \in Seq(Words) /\ Len(<<f>>) = 1 /\ <<f>>[1] = f /\ <<f>> # <<>>
          BY DEF Words
        <4> QED BY <4>1
      <3>3. heard[c] = 0 /\ got[c] = 0
        BY <1>2, <1>4 DEF Dial, StreamOK
      <3>4. UNCHANGED <<got, sender, queue>>
        BY <1>4 DEF Dial
      <3>5. StreamOK("wait", w, got[c], heard[c], Len(received[c]))
        BY <1>2, <1>4, <3>2, <3>3 DEF StreamOK
      <3> QED BY <1>1, <1>3, <3>1, <3>2, <3>4, <3>5 DEF Enter, Streams, ClientStates
    <2>2. CASE Enter(c, "failed") /\ UNCHANGED up
      BY <1>1, <1>2, <1>3, <1>4, <2>2 DEF Dial, Enter, Streams, ClientStates, StreamOK
    <2> QED BY <1>4, <2>1, <2>2 DEF Dial
  <1>5. CASE DialReply(c) \/ Hear(c)
    <2>1. /\ got' = [got EXCEPT ![c] = got[c] + 1] /\ got[c] < Len(received[c])
          /\ UNCHANGED <<up, queue>>
          /\ state' \in [Conns -> ClientStates]
          /\ state[c] \in {"wait", "open"} /\ state'[c] \in {"open", "refused"}
      BY <1>5 DEF DialReply, Hear, ReadFrame, Unread, Verdict, Enter, Streams, ClientStates
    <2>2. StreamOK(state'[c], up'[c], got'[c], heard[c], Len(received[c]))
      BY <1>2, <2>1 DEF StreamOK, Streams
    <2> QED BY <1>1, <1>3, <2>1, <2>2 DEF Streams
  <1>6. CASE DialFails(c) \/ Hangup(c)
    <2>1. state' = [state EXCEPT ![c] = state'[c]] /\ state'[c] \in {"failed", "closed"}
          /\ UNCHANGED <<up, got, queue>> /\ (state'[c] = "closed" => state[c] = "open")
      BY <1>6 DEF DialFails, Hangup, Enter, Streams
    <2>2. StreamOK(state'[c], up'[c], got'[c], heard[c], Len(received[c]))
      BY <1>2, <2>1 DEF StreamOK
    <2>3. state' \in [Conns -> ClientStates]
      BY <2>1 DEF Streams, ClientStates
    <2> QED BY <1>1, <1>3, <2>1, <2>2, <2>3 DEF Streams
  <1>7. CASE SendTests(c)
    BY <1>1, <1>3, <1>7 DEF SendTests, Streams
  <1>8. CASE SendQueues(c)
    <2>1. queue[c] \in Seq({Message})
      BY DEF Streams
    <2>2. Append(queue[c], Message) \in Seq({Message})
      BY <2>1, AppendGrows
    <2>3. queue' \in [Conns -> Seq({Message})]
      BY <1>8, <2>2 DEF SendQueues, Streams
    <2> QED BY <1>1, <1>3, <1>8, <2>3 DEF SendQueues, Streams
  <1>9. CASE Pump(c)
    <2>1. queue[c] \in Seq({Message}) /\ queue[c] # <<>> /\ up[c] # <<>> /\ up[c] \in Seq(Words)
      BY <1>2, <1>9 DEF Pump, Streams, StreamOK
    <2>2. Head(queue[c]) = Message /\ Tail(queue[c]) \in Seq({Message}) /\ Message \in Words
      BY <2>1, TailRange DEF Words
    <2>3. PICK more : more = Append(up[c], Message)
      OBVIOUS
    <2>4. Len(up[c]) # 0
      BY <2>1, EmptySeq
    <2>5. /\ more \in Seq(Words) /\ Len(more) = Len(up[c]) + 1
          /\ \A i \in 1..Len(up[c]) : more[i] = up[c][i]
          /\ more[Len(up[c]) + 1] = Message
      BY <2>1, <2>2, <2>3, AppendGrows
    <2>6. heard[c] <= Len(more) /\ more[1] \in {Auth, BadAuth} /\ more # <<>>
      BY <1>2, <2>1, <2>4, <2>5 DEF StreamOK
    <2>7. ASSUME NEW i \in 1..Len(more), i # 1 PROVE more[i] = Message
      <3>1. CASE i = Len(up[c]) + 1
        BY <2>5, <3>1
      <3>2. CASE i # Len(up[c]) + 1
        BY <1>2, <2>5, <2>7, <3>2 DEF StreamOK
      <3> QED BY <3>1, <3>2
    <2>8. StreamOK(state[c], more, got[c], heard[c], Len(received[c]))
      BY <1>2, <1>9, <2>6, <2>7 DEF StreamOK, Pump
    <2>9. /\ up' = [up EXCEPT ![c] = more] /\ queue' = [queue EXCEPT ![c] = Tail(queue[c])]
          /\ UNCHANGED <<state, got>>
      BY <1>9, <2>2, <2>3 DEF Pump
    <2> QED BY <1>1, <1>3, <2>2, <2>5, <2>8, <2>9 DEF Streams
  <1> QED BY <1>4, <1>5, <1>6, <1>7, <1>8, <1>9 DEF ClientStep

LEMMA CStep ==
  ASSUME TypeOK, LocalsSet, Streams, [CNext]_allvars
  PROVE  Streams'
  <1>1. CASE \E c \in Conns : ClientStep(c)
    BY <1>1, ClientStreams
  <1>2. CASE UNCHANGED client
    BY <1>2, ServerAlone, ServerReadsOn, ServerStreams
  <1> QED BY <1>1, <1>2 DEF CNext, ServerStep, AllGone, allvars

\* Neither end reads what was not written, and both keep their types.
THEOREM CTypeCorrect == CSpec => []CTypeOK
  <1>1. TypeOK /\ Streams => CTypeOK
    <2> SUFFICES ASSUME TypeOK, Streams, NEW c \in Conns
                 PROVE  got[c] \in 0..Len(received[c]) /\ heard[c] <= Len(up[c])
      BY DEF CTypeOK, Streams, Words
    <2>1. Len(received[c]) \in Nat /\ got[c] \in Nat
      BY LenProperties DEF TypeOK, Streams
    <2> QED BY <2>1 DEF Streams, StreamOK
  <1>2. TypeOK /\ LocalsSet /\ Streams /\ [CNext]_allvars => Streams'
    BY CStep
  <1> QED BY <1>1, <1>2, InitStreams, ServerInv, PTL DEF CSpec

------------------------------------------------------------------------------
(* Dial.  A frame {0,1} is on its way only after the connection was bound, and *)
(* {0,0} only after a bad token; the first frame read is the first received.   *)

\* Connection c is where a push for its token's user looks.
Bound(c) == \E u \in Tokens[c] : connRoom[c] = u /\ c \in rooms[u]

Said(c) == IF up[c] = <<>> THEN "nothing" ELSE up[c][1]

\* Both replies answer the client's first frame.
Replied ==
    \A c \in Conns :
      /\ reader[c] \in {"bind", "reply"} => Said(c) = Auth
      /\ AuthOk \in Reaching(c) => Said(c) = Auth
      /\ Zero \in Reaching(c) => Said(c) = BadAuth

RepliedBound ==
    \A c \in Conns :
      (reader[c] = "reply" \/ (AuthOk \in Reaching(c) /\ reader[c] # "gone")) => Bound(c)

Judged ==
    \A c \in Conns :
      /\ state[c] \in {"open", "closed"} => AuthOk \in Range(received[c])
      /\ state[c] = "refused" => /\ Len(received[c]) # 0
                                 /\ received[c][1] \in Pushes \cup {Zero}

\* A reply comes from its handler only.
LEMMA RepliesReach ==
  ASSUME TypeOK, LocalsSet, [CNext]_allvars, NEW d \in Conns, NEW f \in {Zero, AuthOk},
         f \in Reaching(d)'
  PROVE  \/ f \in Reaching(d)
         \/ f = AuthOk /\ Reply(d)
         \/ f = Zero /\ ServerReads(d) /\ ReadBadAuth(d) /\ Incoming(d) = BadAuth
  <1> USE DEF manager, push
  <1>0. f \in Frames /\ f \notin Pushes /\ Zero # AuthOk
    BY FrameKinds, PushesAssumption DEF Zero, AuthOk
  <1>1. CASE \E c \in Conns : WriterStep(c)
    BY <1>0, <1>1, WriterReaching
  <1>2. CASE \E q \in Pushes : Snapshot(q) \/ PushStep(q)
    BY <1>0, <1>2, PushReaching
  <1>3. ASSUME NEW c \in Conns, NEW g \in {Zero, AuthOk}, Write(c, g), UNCHANGED <<holding, received>>
        PROVE  f \in Reaching(d) \/ (f = g /\ d = c)
    <2>1. g \in Frames
      BY FrameKinds
    <2>2. /\ \A e \in Conns \ {c} : send'[e] = send[e]
          /\ \/ send'[c] = send[c]
             \/ Range(send'[c]) = Range(send[c]) \cup {g}
      BY <1>3, <2>1, WriteType
    <2> QED BY <1>3, <2>2 DEF Reaching
  <1>4. CASE \E c \in Conns : ServerReads(c) /\ ReadBadAuth(c) /\ Incoming(c) = BadAuth
    BY <1>0, <1>3, <1>4 DEF ReadBadAuth
  <1>5. CASE \E c \in Conns : Reply(c)
    BY <1>0, <1>3, <1>5 DEF Reply
  <1>6. CASE UNCHANGED <<send, holding, received>>
    BY <1>6 DEF Reaching
  <1>7. CASE \E c \in Conns : \/ Accept(c) \/ Bind(c) \/ ReadError(c) \/ Pop(c)
                              \/ ReadAuth(c) \/ ReadOther(c)
    BY <1>6, <1>7 DEF Accept, Bind, ReadError, Pop, ReadAuth, ReadOther
  <1>8. CASE (\E c \in Conns : ClientStep(c)) \/ AllGone \/ UNCHANGED allvars
    BY <1>6, <1>8, ClientAlone DEF AllGone, Quiet, allvars, vars
  <1> QED BY <1>1, <1>2, <1>4, <1>5, <1>7, <1>8 DEF CNext, ServerStep, ServerReads

\* What a client has said first it has said for good.
LEMMA SaidStays ==
  ASSUME TypeOK, Streams, [CNext]_allvars, NEW c \in Conns, Said(c) # "nothing"
  PROVE  Said(c)' = Said(c)
  <1>1. up[c] \in Seq(Words) /\ up[c] # <<>>
    BY DEF Said, Streams
  <1>2. CASE \E d \in Conns : Pump(d)
    <2>1. PICK d \in Conns : Pump(d)
      BY <1>2
    <2>2. CASE d = c
      <3>1. Head(queue[c]) = Message /\ Message \in Words
        BY <2>1, <2>2, TailRange DEF Pump, Streams, Words
      <3>2. up'[c] = Append(up[c], Message)
        BY <2>1, <2>2, <3>1 DEF Pump, Streams
      <3>3. Len(up[c]) # 0 /\ Len(up[c]) \in Nat
        BY <1>1, EmptySeq, LenProperties
      <3>4. PICK more : more = Append(up[c], Message)
        OBVIOUS
      <3>5. more \in Seq(Words) /\ Len(more) = Len(up[c]) + 1 /\ more[1] = up[c][1]
        BY <1>1, <3>1, <3>3, <3>4, AppendGrows
      <3>6. more # <<>>
        BY <3>3, <3>5
      <3> QED BY <1>1, <3>2, <3>4, <3>5, <3>6 DEF Said
    <2>3. CASE d # c
      BY <2>1, <2>3 DEF Pump, Streams, Said
    <2> QED BY <2>2, <2>3
  <1>3. CASE \E d \in Conns : Dial(d)
    BY <1>1, <1>3 DEF Dial, Streams, StreamOK, Said
  <1>4. CASE UNCHANGED up
    BY <1>4 DEF Said
  <1> QED BY <1>2, <1>3, <1>4 DEF CNext, ClientStep, DialReply, DialFails, Hear, Hangup,
       SendTests, SendQueues, ServerStep, AllGone, allvars, client

\* The server's first frame from a client is its token.
LEMMA FirstHeard ==
  ASSUME TypeOK, Streams, NEW c \in Conns, ServerReads(c), Incoming(c) \in {Auth, BadAuth}
  PROVE  Said(c) = Incoming(c)
  <1>1. /\ up[c] \in Seq(Words) /\ heard[c] \in Nat /\ heard[c] < Len(up[c]) /\ Len(up[c]) \in Nat
        /\ StreamOK(state[c], up[c], got[c], heard[c], Len(received[c]))
    BY LenProperties DEF Streams, TypeOK, ServerReads
  <1>2. heard[c] + 1 \in 1..Len(up[c]) /\ up[c] # <<>>
    BY <1>1, EmptySeq
  <1>3. Message \notin {Auth, BadAuth}
    BY DEF Message, Auth, BadAuth
  <1>4. heard[c] + 1 = 1
    BY <1>1, <1>2, <1>3 DEF StreamOK, Incoming
  <1> QED BY <1>2, <1>4 DEF Said, Incoming

LEMMA RepliedStep ==
  ASSUME TypeOK, LocalsSet, Streams, Replied, [CNext]_allvars
  PROVE  Replied'
  <1> SUFFICES ASSUME NEW c \in Conns
               PROVE  /\ reader'[c] \in {"bind", "reply"} => Said(c)' = Auth
                      /\ AuthOk \in Reaching(c)' => Said(c)' = Auth
                      /\ Zero \in Reaching(c)' => Said(c)' = BadAuth
    BY DEF Replied
  <1>0. "nothing" \notin {Auth, BadAuth}
    BY DEF Auth, BadAuth
  <1>1. Said(c) \in {Auth, BadAuth} => Said(c)' = Said(c)
    BY <1>0, SaidStays
  <1>2. ASSUME reader'[c] \in {"bind", "reply"} PROVE Said(c) = Auth
    <2>1. CASE reader[c] \in {"bind", "reply"}
      BY <2>1 DEF Replied
    <2>2. CASE ServerReads(c) /\ ReadAuth(c) /\ Incoming(c) = Auth
      BY <2>2, FirstHeard
    <2>3. CASE UNCHANGED reader
      BY <1>2, <2>1, <2>3
    <2>4. CASE \E d \in Conns : ServerReads(d) /\ ReadAuth(d) /\ Incoming(d) = Auth
      <3>1. PICK d \in Conns : ServerReads(d) /\ ReadAuth(d) /\ Incoming(d) = Auth
        BY <2>4
      <3>2. d # c => reader'[c] = reader[c]
        BY <3>1 DEF ReadAuth, TypeOK
      <3> QED BY <1>2, <2>1, <2>2, <3>1, <3>2
    <2>5. CASE \E d \in Conns : Accept(d) \/ Bind(d) \/ Reply(d) \/ ReadError(d) \/ Pop(d)
      BY <1>2, <2>1, <2>5 DEF Accept, Bind, Reply, ReadError, Pop, TypeOK
    <2>6. CASE \E d \in Conns : ReadBadAuth(d) \/ ReadOther(d) \/ WriterStep(d)
      BY <2>3, <2>6 DEF ReadBadAuth, ReadOther, WriterStep, Take, WriteOk, WriteFail, PumpStop
    <2>7. CASE \E q \in Pushes : Snapshot(q) \/ PushStep(q)
      BY <2>3, <2>7 DEF Snapshot, PushStep, CheckClosed, TrySend, Return
    <2>8. CASE (\E d \in Conns : ClientStep(d)) \/ AllGone \/ UNCHANGED allvars
      BY <2>3, <2>8, ClientAlone DEF AllGone, Quiet, allvars, vars
    <2> QED BY <2>4, <2>5, <2>6, <2>7, <2>8 DEF CNext, ServerStep, ServerReads
  <1>3. ASSUME AuthOk \in Reaching(c)' PROVE Said(c) = Auth
    <2>1. AuthOk \in Reaching(c) \/ Reply(c)
      BY <1>3, RepliesReach DEF Zero, AuthOk
    <2> QED BY <2>1 DEF Replied, Reply
  <1>4. ASSUME Zero \in Reaching(c)' PROVE Said(c) = BadAuth
    <2>1. Zero \in Reaching(c) \/ (ServerReads(c) /\ Incoming(c) = BadAuth)
      BY <1>4, RepliesReach DEF Zero, AuthOk
    <2> QED BY <2>1, FirstHeard DEF Replied
  <1> QED BY <1>1, <1>2, <1>3, <1>4

\* Only Pop takes a connection out of the room it was bound to last.
LEMMA BoundStays ==
  ASSUME TypeOK, LocalsSet, [Next]_vars, NEW c \in Conns, Bound(c)
  PROVE  Bound(c)' \/ reader'[c] = "gone"
  <1> USE DEF manager, push
  <1>1. CASE \E d \in Conns : Bind(d)
    <2>1. PICK d \in Conns : Bind(d)
      BY <1>1
    <2>2. authUser[d] \in Tokens[d] /\ authUser[d] \in Users
      BY <2>1, TokensAssumption DEF Bind, LocalsSet
    <2>3. /\ rooms' = [rooms EXCEPT ![authUser[d]] = @ \cup {d}]
          /\ connRoom' = [connRoom EXCEPT ![d] = authUser[d]]
      BY <2>1 DEF Bind
    <2>4. Tokens[c] \subseteq Users
      BY TokensAssumption
    <2> QED BY <2>2, <2>3, <2>4 DEF Bound, TypeOK
  <1>2. CASE \E d \in Conns : Pop(d)
    <2>1. PICK d \in Conns : Pop(d)
      BY <1>2
    <2>2. CASE d = c
      BY <2>1, <2>2 DEF Pop, TypeOK
    <2>3. CASE d # c
      <3>1. Tokens[c] \subseteq Users
        BY TokensAssumption
      <3> QED BY <2>1, <2>3, <3>1 DEF Pop, Leave, Bound, TypeOK
    <2> QED BY <2>2, <2>3
  <1>3. CASE UNCHANGED <<rooms, connRoom>>
    BY <1>3 DEF Bound
  <1> QED BY <1>1, <1>2, <1>3 DEF Next, Quiet, vars, Accept, ReaderStep, ReadHeartbeat, ReadBadAuth,
       ReadAuth, ReadOther, Reply, ReadError, WriterStep, Take, WriteOk, WriteFail, PumpStop,
       Snapshot, PushStep, CheckClosed, TrySend, Return

\* A reader that is about to reply has just bound its connection.
LEMMA ReaderReplies ==
  ASSUME TypeOK, LocalsSet, [Next]_vars, NEW c \in Conns
  PROVE  /\ reader'[c] = "reply" => Bound(c)' \/ reader[c] = "reply"
         /\ reader[c] = "gone" => reader'[c] = "gone"
  <1> USE DEF manager, push
  <1>1. CASE \E d \in Conns : Bind(d)
    <2>1. PICK d \in Conns : Bind(d)
      BY <1>1
    <2>2. authUser[d] \in Tokens[d] /\ authUser[d] \in Users
      BY <2>1, TokensAssumption DEF Bind, LocalsSet
    <2> QED BY <2>1, <2>2 DEF Bind, Bound, TypeOK
  <1>2. CASE \E d \in Conns : Accept(d) \/ ReadAuth(d) \/ Reply(d) \/ ReadError(d) \/ Pop(d)
    BY <1>2 DEF Accept, ReadAuth, Read, Reply, ReadError, Pop, TypeOK
  <1>3. CASE UNCHANGED reader
    BY <1>3
  <1> QED BY <1>1, <1>2, <1>3 DEF Next, Quiet, vars, ReaderStep, ReadHeartbeat, ReadBadAuth,
       ReadOther, WriterStep, Take, WriteOk, WriteFail, PumpStop,
       Snapshot, PushStep, CheckClosed, TrySend, Return

LEMMA RepliedBoundStep ==
  ASSUME TypeOK, LocalsSet, RepliedBound, [CNext]_allvars
  PROVE  RepliedBound'
  <1>0. [Next]_vars
    BY ServerAlone
  <1> SUFFICES ASSUME NEW c \in Conns, reader'[c] # "gone",
                      reader'[c] = "reply" \/ AuthOk \in Reaching(c)'
               PROVE  Bound(c)'
    BY DEF RepliedBound
  <1>1. reader[c] # "gone"
    BY <1>0, ReaderReplies
  <1>2. CASE reader'[c] = "reply" /\ reader[c] # "reply"
    BY <1>0, <1>2, ReaderReplies
  <1>3. CASE reader[c] = "reply" \/ AuthOk \in Reaching(c)
    <2>1. Bound(c)
      BY <1>1, <1>3 DEF RepliedBound
    <2> QED BY <1>0, <2>1, BoundStays
  <1>4. CASE AuthOk \in Reaching(c)'
    <2>1. AuthOk \in Reaching(c) \/ reader[c] = "reply"
      BY <1>4, RepliesReach DEF Zero, AuthOk, Reply
    <2> QED BY <1>3, <2>1
  <1> QED BY <1>2, <1>3, <1>4

LEMMA JudgedStep ==
  ASSUME TypeOK, LocalsSet, Streams, Judged, [CNext]_allvars
  PROVE  Judged'
  <1>0. [Next]_vars
    BY ServerAlone
  <1> SUFFICES ASSUME NEW c \in Conns
               PROVE  /\ state'[c] \in {"open", "closed"} => AuthOk \in Range(received'[c])
                      /\ state'[c] = "refused" => /\ Len(received'[c]) # 0
                                                  /\ received'[c][1] \in Pushes \cup {Zero}
    BY DEF Judged
  <1>1. /\ received[c] \in Seq(Frames) /\ DOMAIN received[c] = 1..Len(received[c])
        /\ Len(received[c]) \in Nat
    BY LenProperties DEF TypeOK
  <1>2. AuthOk \in Range(received[c]) => AuthOk \in Range(received'[c])
    <2>1. received'[c] \in Seq(Frames)
      BY <1>0, StepType DEF TypeOK
    <2>2. DOMAIN received'[c] = 1..Len(received'[c])
      BY <2>1, LenProperties
    <2> QED BY <1>0, <1>1, <2>2, ReceivedGrows DEF Range
  <1>3. CASE state'[c] \in {"open", "refused"} /\ DialReply(c)
    <2>1. /\ got[c] = 0 /\ 0 < Len(received[c]) /\ state'[c] = Verdict(received[c][1])
          /\ received' = received
      BY <1>1, <1>3, ClientAlone
         DEF DialReply, ReadFrame, Unread, NextFrame, Enter, Streams, StreamOK, ClientStep, vars
    <2>2. 1 \in DOMAIN received[c] /\ received[c][1] \in Frames
      BY <1>1, <2>1
    <2>3. state'[c] = "open" => received[c][1] = AuthOk
      BY <2>1 DEF Verdict
    <2>4. state'[c] = "refused" => received[c][1] # AuthOk
      BY <2>1 DEF Verdict
    <2> QED BY <1>3, <2>1, <2>2, <2>3, <2>4 DEF Range, Frames
  <1>4. CASE state'[c] = state[c] \/ (state[c] = "open" /\ state'[c] = "closed")
    BY <1>0, <1>1, <1>2, <1>4, ReceivedGrows DEF Judged
  <1>5. CASE state'[c] \in {"wait", "failed"}
    BY <1>5
  <1>6. CASE \E d \in Conns : ClientStep(d)
    <2>1. PICK d \in Conns : ClientStep(d)
      BY <1>6
    <2>2. CASE d = c
      <3>1. CASE DialReply(c)
        <4>1. state'[c] \in {"open", "refused"}
          BY <3>1 DEF DialReply, Enter, Verdict, Streams
        <4> QED BY <1>3, <3>1, <4>1
      <3>2. CASE Dial(c) \/ DialFails(c) \/ Hangup(c)
        BY <1>4, <1>5, <3>2 DEF Dial, DialFails, Hangup, Enter, Streams
      <3>3. CASE Hear(c) \/ SendTests(c) \/ SendQueues(c) \/ Pump(c)
        BY <1>4, <3>3 DEF Hear, SendTests, SendQueues, Pump
      <3> QED BY <2>1, <2>2, <3>1, <3>2, <3>3 DEF ClientStep
    <2>3. CASE d # c
      <3>1. state'[c] = state[c]
        BY <2>1, <2>3 DEF ClientStep, Dial, DialReply, DialFails, Hear, Hangup, SendTests,
           SendQueues, Pump, Enter, Streams
      <3> QED BY <1>4, <3>1
    <2> QED BY <2>2, <2>3
  <1>7. CASE UNCHANGED client
    BY <1>4, <1>7 DEF client
  <1> QED BY <1>6, <1>7 DEF CNext, ServerStep, AllGone, allvars

LEMMA DialInv == CSpec => [](TypeOK /\ Streams /\ Replied /\ RepliedBound /\ Judged)
  <1>1. CInit => Replied /\ RepliedBound /\ Judged
    <2>1. ASSUME CInit, NEW c \in Conns, NEW f \in {Zero, AuthOk} PROVE f \notin Reaching(c)
      BY <2>1, PushesAssumption DEF CInit, Init, Reaching, Range
    <2> QED BY <2>1 DEF CInit, Init, Replied, RepliedBound, Judged
  <1>2. TypeOK /\ LocalsSet /\ Streams /\ Replied /\ RepliedBound /\ Judged /\ [CNext]_allvars
        => (Streams /\ Replied /\ RepliedBound /\ Judged)'
    BY CStep, RepliedStep, RepliedBoundStep, JudgedStep
  <1> QED BY <1>1, <1>2, InitStreams, ServerInv, PTL DEF CSpec

\* A connection that Dial returned is in the room of its token's user (server.go
\* 131-150: Bind comes before the reply).
THEOREM DialsBound == CSpec => []OpenIsBound
  <1>1. RepliedBound /\ Judged => OpenIsBound
    BY DEF RepliedBound, Judged, OpenIsBound, Bound, Reaching
  <1> QED BY <1>1, DialInv, PTL

\* Dial accepts good tokens only, and refuses one only when a push came first
\* (client/conn.go 56-108).
THEOREM DialsJudge == CSpec => []DialVerdict
  <1>1. TypeOK /\ Replied /\ Judged => DialVerdict
    <2> SUFFICES ASSUME TypeOK, Replied, Judged, NEW c \in Conns
                 PROVE  /\ state[c] \in {"open", "closed"} => up[c][1] = Auth
                        /\ state[c] = "refused" => up[c][1] = BadAuth \/ received[c][1] \in Pushes
      BY DEF DialVerdict
    <2>0. "nothing" \notin {Auth, BadAuth}
      BY DEF Auth, BadAuth
    <2>1. CASE state[c] \in {"open", "closed"}
      BY <2>0, <2>1 DEF Replied, Judged, Reaching, Said
    <2>2. CASE state[c] = "refused"
      <3>1. received[c] \in Seq(Frames) /\ 1 \in DOMAIN received[c]
        BY <2>2, LenProperties DEF TypeOK, Judged
      <3>2. received[c][1] = Zero => Said(c) = BadAuth
        BY <3>1 DEF Replied, Reaching, Range
      <3> QED BY <2>0, <2>2, <3>2 DEF Judged, Said
    <2> QED BY <2>1, <2>2
  <1> QED BY <1>1, DialInv, PTL

------------------------------------------------------------------------------
(* Nothing counted is lost while both ends are open *)

\* WritePump holds a frame only while it writes it, and starts with the reader; a
\* push that was counted is in the channel, with the writer or with the client.
Safe ==
    /\ \A c \in Conns : reader[c] = "none" => writer[c] = "none"
    /\ \A c \in Conns : writer[c] # "writing" => holding[c] = None
    /\ \A c \in Conns, q \in Pushes :
         (c \in acked[q] /\ ~closed[c]) => q \in Reaching(c)

\* Replies take no place from a push.
LEMMA ReaderSafe ==
  ASSUME TypeOK, Safe, NEW c \in Conns, Accept(c) \/ ReaderStep(c)
  PROVE  Safe'
  <1> USE DEF manager, push
  <1>1. /\ UNCHANGED <<holding, received, acked>>
        /\ \A d \in Conns : closed[d] => closed'[d]
        /\ \A d \in Conns : writer'[d] = writer[d] \/ (reader[d] = "none" /\ reader'[d] # "none")
        /\ \A d \in Conns : reader'[d] = "none" => reader[d] = "none" /\ writer'[d] = writer[d]
        /\ \A d \in Conns : writer'[d] = writer[d] \/ writer'[d] = "idle"
    <2>1. CASE Accept(c)
      BY <2>1 DEF Accept, TypeOK
    <2>2. ASSUME ReaderStep(c)
          PROVE  /\ UNCHANGED <<holding, received, acked, writer>>
                 /\ reader[c] # "none" /\ reader' = [reader EXCEPT ![c] = reader'[c]]
                 /\ reader'[c] # "none"
      BY <2>2 DEF ReaderStep, Read, ReadHeartbeat, ReadBadAuth, ReadAuth, ReadOther,
         Bind, Reply, ReadError, Pop, TypeOK
    <2>3. ASSUME ReaderStep(c) PROVE \A d \in Conns : closed[d] => closed'[d]
      <3>1. closed' = closed \/ closed' = [closed EXCEPT ![c] = TRUE]
        BY <2>3 DEF ReaderStep, ReadHeartbeat, ReadBadAuth, ReadAuth, ReadOther,
           Bind, Reply, ReadError, Pop
      <3> QED BY <3>1 DEF TypeOK
    <2>4. CASE ReaderStep(c)
      <3>1. \A d \in Conns : reader'[d] = "none" => reader[d] = "none"
        BY <2>2, <2>4 DEF TypeOK
      <3> QED BY <2>2, <2>3, <2>4, <3>1
    <2> QED BY <2>1, <2>4
  <1>2. ASSUME NEW d \in Conns PROVE Range(send[d]) \subseteq Range(send'[d])
    <2>1. CASE \E f \in {Zero, AuthOk} : Write(c, f)
      BY <2>1, WriteType, FrameKinds
    <2>2. CASE UNCHANGED send
      BY <2>2
    <2> QED BY <2>1, <2>2 DEF Accept, ReaderStep, ReadHeartbeat, ReadBadAuth, ReadAuth,
               ReadOther, Bind, Reply, ReadError, Pop
  <1> QED BY <1>1, <1>2 DEF Safe, Reaching

\* WritePump loses a frame only when it closes the connection.
LEMMA WriterSafe ==
  ASSUME TypeOK, LocalsSet, Safe, NEW c \in Conns, WriterStep(c)
  PROVE  Safe'
  <1> USE DEF manager, push
  <1>0. UNCHANGED <<reader, acked>> /\ writer[c] # "none"
    BY DEF WriterStep, Take, WriteOk, WriteFail, PumpStop
  <1>1. /\ \A d \in Conns : closed[d] => closed'[d]
        /\ \A d \in Conns \ {c} : writer'[d] = writer[d] /\ holding'[d] = holding[d]
        /\ writer'[c] # "writing" => holding'[c] = None
    <2>1. \A d \in Conns : closed[d] => closed'[d]
      BY DEF WriterStep, Take, WriteOk, WriteFail, PumpStop, TypeOK
    <2>2. \A d \in Conns \ {c} : writer'[d] = writer[d] /\ holding'[d] = holding[d]
      BY DEF WriterStep, Take, WriteOk, WriteFail, PumpStop, TypeOK
    <2>3. writer'[c] # "writing" => holding'[c] = None
      BY DEF WriterStep, Take, WriteOk, WriteFail, PumpStop, TypeOK, Safe
    <2> QED BY <2>1, <2>2, <2>3
  <1>2. ASSUME NEW d \in Conns, NEW q \in Pushes, q \in Reaching(d), ~closed'[d]
        PROVE  q \in Reaching(d)'
    <2>0. q # None
      BY PushesAssumption
    <2>1. CASE Take(c)
      <3>1. send[c] \in Seq(Frames) /\ send[c] # <<>> /\ holding[c] = None
        BY <2>1 DEF Take, TypeOK, Safe
      <3>2. Range(send[c]) = Range(Tail(send[c])) \cup {Head(send[c])}
        BY <3>1, TailRange
      <3>3. /\ send'[d] = IF d = c THEN Tail(send[c]) ELSE send[d]
            /\ holding'[d] = IF d = c THEN Head(send[c]) ELSE holding[d]
            /\ received' = received
        BY <2>1 DEF Take, TypeOK
      <3> QED BY <1>2, <2>0, <3>1, <3>2, <3>3 DEF Reaching
    <2>2. CASE WriteOk(c)
      <3>1. received[c] \in Seq(Frames) /\ holding[c] \in Frames
        BY <2>2 DEF WriteOk, TypeOK, LocalsSet
      <3>2. Range(Append(received[c], holding[c])) = Range(received[c]) \cup {holding[c]}
        BY <3>1, AppendRange
      <3>3. /\ received'[d] = IF d = c THEN Append(received[c], holding[c]) ELSE received[d]
            /\ holding'[d] = IF d = c THEN None ELSE holding[d]
            /\ send' = send
        BY <2>2 DEF WriteOk, TypeOK
      <3> QED BY <1>2, <2>0, <3>2, <3>3 DEF Reaching
    <2>3. CASE WriteFail(c)
      BY <1>2, <2>3 DEF WriteFail, Reaching, TypeOK
    <2>4. CASE PumpStop(c)
      BY <1>2, <2>4 DEF PumpStop, Reaching
    <2> QED BY <2>1, <2>2, <2>3, <2>4 DEF WriterStep
  <1> QED BY <1>0, <1>1, <1>2 DEF Safe

\* A push counts a connection only when its frame is in the channel.
LEMMA PushSafe ==
  ASSUME TypeOK, LocalsSet, Safe, NEW p \in Pushes, Snapshot(p) \/ PushStep(p)
  PROVE  Safe'
  <1> USE DEF manager, push
  <1>1. UNCHANGED <<reader, writer, holding, closed, received>>
    BY DEF Snapshot, PushStep, CheckClosed, TrySend, Return
  <1>2. CASE TrySend(p) /\ Enqueue(cur[p], p)
    <2>1. cur[p] \in Conns
      BY <1>2 DEF TrySend, LocalsSet
    <2>2. /\ \A e \in Conns \ {cur[p]} : send'[e] = send[e]
          /\ Range(send'[cur[p]]) = Range(send[cur[p]]) \cup {p}
      BY <1>2, <2>1, EnqueueType, FrameKinds
    <2>3. \A q \in Pushes : acked'[q] \subseteq IF q = p THEN acked[q] \cup {cur[p]} ELSE acked[q]
      BY <1>2 DEF TrySend, DropFull, TypeOK
    <2> QED BY <1>1, <2>1, <2>2, <2>3 DEF Safe, Reaching
  <1>3. CASE UNCHANGED <<send, acked>>
    BY <1>1, <1>3 DEF Safe, Reaching
  <1> QED BY <1>2, <1>3 DEF PushStep, Snapshot, CheckClosed, TrySend, DropFull, Return

LEMMA SafeStep ==
  ASSUME TypeOK, LocalsSet, Safe, [Next]_vars
  PROVE  Safe'
  <1>1. CASE UNCHANGED vars
    BY <1>1 DEF vars, Safe, Reaching
  <1> QED BY <1>1, ReaderSafe, WriterSafe, PushSafe DEF Next, Quiet

\* A push that was counted for a connection is in its channel, in its socket or at
\* its client, as long as neither end closes (ws/conn.go 64-126).
THEOREM NothingLost == CSpec => []NoLossWhileOpen
  <1>1. CInit => Safe
    BY DEF CInit, Init, Safe
  <1>2. TypeOK /\ LocalsSet /\ Safe /\ [Next]_vars => Safe'
    BY SafeStep
  <1>3. TypeOK /\ Streams /\ Safe => NoLossWhileOpen
    <2> SUFFICES ASSUME TypeOK, Streams, Safe, NEW c \in Conns, NEW q \in Pushes,
                        q \in Reaching(c)
                 PROVE  q \in Told(c) \cup OnTheWay(c)
      BY DEF Safe, NoLossWhileOpen
    <2>1. CASE q \in Range(received[c])
      <3>1. PICK i \in DOMAIN received[c] : received[c][i] = q
        BY <2>1 DEF Range
      <3>2. i \in 1..Len(received[c]) /\ Len(received[c]) \in Nat /\ got[c] \in Nat
        BY LenProperties DEF TypeOK, Streams
      <3>3. i \in 1..got[c] \/ i \in (got[c] + 1)..Len(received[c])
        BY <3>2
      <3> QED BY <3>1, <3>3 DEF Told, OnTheWay
    <2> QED BY <2>1 DEF Reaching, OnTheWay
  <1> QED BY <1>1, <1>2, <1>3, ServerInv, ServerAlone, DialInv, PTL DEF CSpec
==============================================================================
