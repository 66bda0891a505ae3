-------------------------------- MODULE Comet --------------------------------
(***************************************************************************)
(* The push server of pkg/comet, which services/live runs: the ConnManager  *)
(* (conn_manager.go), the protocol handlers of Core (server.go) and the     *)
(* WebSocket connection with its reader and writer goroutines (ws/conn.go,   *)
(* ws/server.go).                                                            *)
(*                                                                           *)
(* A connection c has a reader goroutine (handleWS running ReadLoop, then    *)
(* Pop) and a writer goroutine (WritePump) joined by the channel send[c].    *)
(* A push runs in the goroutine of its gRPC call.  The methods of            *)
(* ConnManager hold its mutex and are one step each; PushToRoom holds it     *)
(* only for the snapshot of the room, and Write takes a lock for the closed  *)
(* flag only, so what follows interleaves with everything else.              *)
(***************************************************************************)
EXTENDS Integers, Sequences, FiniteSets, Functions

CONSTANTS
    Conns,          \* connection ids (a fresh uuid each, never reused)
    Users,          \* user ids, which are room ids too
    Pushes,         \* calls of Core.Push
    Tokens,         \* Tokens[c]: the users whose valid token client c may send
    SendBuf,        \* capacity of a connection's send channel
    MaxFrames,      \* bound: frames a client sends
    None            \* no user, no connection, no frame

\* What goes over the wire to the client.  {0,0} is both the heartbeat reply
\* and the refused authentication; a push is a {0,3} frame.
Zero == "0x0000"
AuthOk == "0x0001"
Frames == {Zero, AuthOk} \cup Pushes

ASSUME ConnsAssumption == IsFiniteSet(Conns) /\ None \notin Conns
ASSUME UsersAssumption == None \notin Users
ASSUME PushesAssumption ==
    /\ {None, Zero, AuthOk} \cap Pushes = {}
    /\ None \notin {Zero, AuthOk}
ASSUME TokensAssumption == Tokens \in [Conns -> SUBSET Users]
ASSUME BoundsAssumption == SendBuf \in Nat \ {0} /\ MaxFrames \in Nat

VARIABLES
    conns,          \* ConnManager.conns
    rooms,          \* ConnManager.rooms; {} is a missing entry
    connRoom,       \* ConnManager.connRoom; None is a missing entry
    send,           \* the buffered channel of a connection
    closed,         \* Conn.closed; its context is cancelled with it
    reader,         \* where the reader goroutine is
    authUser,       \* the user handleAuth is about to bind
    writer,         \* where the writer goroutine is
    holding,        \* the frame WritePump took from the channel
    pusher,         \* where a push is
    target,         \* the room a push is for
    todo,           \* connections of the snapshot not yet written to
    cur,            \* the connection whose closed flag a push has just read
    acked,          \* connections whose Write returned nil: delivered counts them
    heard,          \* history: how many frames a client has sent
    authed,         \* history: the users a connection was bound to
    received        \* history: the frames a client got

manager == <<conns, rooms, connRoom>>
push == <<pusher, target, todo, cur, acked>>
vars == <<conns, rooms, connRoom, send, closed, reader, authUser, writer,
          holding, pusher, target, todo, cur, acked, heard, authed, received>>

ReaderPCs == {"none", "read", "bind", "reply", "pop", "gone"}
WriterPCs == {"none", "idle", "writing", "done"}
PusherPCs == {"idle", "check", "enqueue", "done"}

Init ==
    /\ conns = {}
    /\ rooms = [u \in Users |-> {}]
    /\ connRoom = [c \in Conns |-> None]
    /\ send = [c \in Conns |-> <<>>]
    /\ closed = [c \in Conns |-> FALSE]
    /\ reader = [c \in Conns |-> "none"]
    /\ authUser = [c \in Conns |-> None]
    /\ writer = [c \in Conns |-> "none"]
    /\ holding = [c \in Conns |-> None]
    /\ pusher = [q \in Pushes |-> "idle"]
    /\ target = [q \in Pushes |-> None]
    /\ todo = [q \in Pushes |-> {}]
    /\ cur = [q \in Pushes |-> None]
    /\ acked = [q \in Pushes |-> {}]
    /\ heard = [c \in Conns |-> 0]
    /\ authed = [c \in Conns |-> {}]
    /\ received = [c \in Conns |-> <<>>]

------------------------------------------------------------------------------
(* Conn.Write: refused when closed, dropped when the channel is full *)

Full(c) == Len(send[c]) >= SendBuf

Enqueue(c, f) == send' = [send EXCEPT ![c] = Append(@, f)]

\* A reply of the reader goroutine, which ignores the error.
Write(c, f) ==
    \/ ~closed[c] /\ ~Full(c) /\ Enqueue(c, f)
    \/ (closed[c] \/ Full(c)) /\ UNCHANGED send

------------------------------------------------------------------------------
(* The reader goroutine *)

\* handleWS: the connection is registered and its goroutines started.
Accept(c) ==
    /\ reader[c] = "none"
    /\ conns' = conns \cup {c}
    /\ reader' = [reader EXCEPT ![c] = "read"]
    /\ writer' = [writer EXCEPT ![c] = "idle"]
    /\ UNCHANGED <<rooms, connRoom, send, closed, authUser, holding, push,
                   heard, authed, received>>

\* ReadLoop got a frame; it does not read once the connection is closed.
Read(c) ==
    /\ reader[c] = "read"
    /\ ~closed[c]
    /\ heard[c] < MaxFrames
    /\ heard' = [heard EXCEPT ![c] = @ + 1]

ReadHeartbeat(c) ==
    /\ Read(c)
    /\ Write(c, Zero)
    /\ UNCHANGED <<manager, closed, reader, authUser, writer, holding, push,
                   authed, received>>

\* OnAuth refuses the token.
ReadBadAuth(c) ==
    /\ Read(c)
    /\ Write(c, Zero)
    /\ UNCHANGED <<manager, closed, reader, authUser, writer, holding, push,
                   authed, received>>

\* Mutant: an empty user id is bound too.
ReadAuthEmpty(c) ==
    /\ Read(c)
    /\ \E u \in Tokens[c] \cup {None} : authUser' = [authUser EXCEPT ![c] = u]
    /\ reader' = [reader EXCEPT ![c] = "bind"]
    /\ UNCHANGED <<manager, send, closed, writer, holding, push, authed,
                   received>>

\* Mutant: the reply goes out before the connection is in its room.
ReadAuthReplies(c) ==
    /\ Read(c)
    /\ Write(c, AuthOk)
    /\ \E u \in Tokens[c] : authUser' = [authUser EXCEPT ![c] = u]
    /\ reader' = [reader EXCEPT ![c] = "bind"]
    /\ UNCHANGED <<manager, closed, writer, holding, push, authed, received>>

\* OnAuth accepts the token of user u.
ReadAuth(c) ==
    /\ Read(c)
    /\ \E u \in Tokens[c] : authUser' = [authUser EXCEPT ![c] = u]
    /\ reader' = [reader EXCEPT ![c] = "bind"]
    /\ UNCHANGED <<manager, send, closed, writer, holding, push, authed,
                   received>>

\* A business message, which OnMessage ignores, or a frame nobody handles.
ReadOther(c) ==
    /\ Read(c)
    /\ UNCHANGED <<manager, send, closed, reader, authUser, writer, holding,
                   push, authed, received>>

Bind(c) ==
    /\ reader[c] = "bind"
    /\ rooms' = [rooms EXCEPT ![authUser[c]] = @ \cup {c}]
    /\ connRoom' = [connRoom EXCEPT ![c] = authUser[c]]
    /\ authed' = [authed EXCEPT ![c] = @ \cup {authUser[c]}]
    /\ reader' = [reader EXCEPT ![c] = "reply"]
    /\ UNCHANGED <<conns, send, closed, authUser, writer, holding, push, heard,
                   received>>

\* handleAuth answers only after the connection is in its room.
Reply(c) ==
    /\ reader[c] = "reply"
    /\ Write(c, AuthOk)
    /\ reader' = [reader EXCEPT ![c] = "read"]
    /\ UNCHANGED <<manager, closed, authUser, writer, holding, push, heard,
                   authed, received>>

\* Mutant: a read error does not end the loop.
ReadErrorIgnored(c) ==
    /\ reader[c] = "read"
    /\ closed' = [closed EXCEPT ![c] = TRUE]
    /\ UNCHANGED <<manager, reader, send, authUser, writer, holding, push, heard,
                   authed, received>>

\* ReadMessage failed: the peer left, 120 s passed in silence, or the writer
\* closed the socket.  The deferred Close runs.
ReadError(c) ==
    /\ reader[c] = "read"
    /\ closed' = [closed EXCEPT ![c] = TRUE]
    /\ reader' = [reader EXCEPT ![c] = "pop"]
    /\ UNCHANGED <<manager, send, authUser, writer, holding, push, heard,
                   authed, received>>

\* Mutant: only connRoom forgets the connection.
LeaveConnRoom(c) ==
    /\ connRoom' = [connRoom EXCEPT ![c] = None]
    /\ UNCHANGED rooms

\* The connection leaves the room connRoom names.
Leave(c) ==
    /\ rooms' = [u \in Users |-> IF u = connRoom[c] THEN rooms[u] \ {c}
                                                    ELSE rooms[u]]
    /\ connRoom' = [connRoom EXCEPT ![c] = None]

\* Mutant: a connection that never authenticated is not removed.
PopOfRoom(c) ==
    /\ reader[c] = "pop"
    /\ conns' = IF connRoom[c] = None THEN conns ELSE conns \ {c}
    /\ Leave(c)
    /\ reader' = [reader EXCEPT ![c] = "gone"]
    /\ UNCHANGED <<send, closed, authUser, writer, holding, push, heard,
                   authed, received>>

Pop(c) ==
    /\ reader[c] = "pop"
    /\ conns' = conns \ {c}
    /\ Leave(c)
    /\ reader' = [reader EXCEPT ![c] = "gone"]
    /\ UNCHANGED <<send, closed, authUser, writer, holding, push, heard,
                   authed, received>>

------------------------------------------------------------------------------
(* The writer goroutine, WritePump.  Its select may still take a frame when  *)
(* the context is cancelled; writing it then fails.                          *)

Take(c) ==
    /\ writer[c] = "idle"
    /\ send[c] # <<>>
    /\ holding' = [holding EXCEPT ![c] = Head(send[c])]
    /\ send' = [send EXCEPT ![c] = Tail(@)]
    /\ writer' = [writer EXCEPT ![c] = "writing"]
    /\ UNCHANGED <<manager, closed, reader, authUser, push, heard, authed,
                   received>>

WriteOk(c) ==
    /\ writer[c] = "writing"
    /\ ~closed[c]
    /\ received' = [received EXCEPT ![c] = Append(@, holding[c])]
    /\ holding' = [holding EXCEPT ![c] = None]
    /\ writer' = [writer EXCEPT ![c] = "idle"]
    /\ UNCHANGED <<manager, send, closed, reader, authUser, push, heard, authed>>

\* Mutant: a failed write loses its frame and the loop goes on.
WriteErrorIgnored(c) ==
    /\ writer[c] = "writing"
    /\ holding' = [holding EXCEPT ![c] = None]
    /\ writer' = [writer EXCEPT ![c] = "idle"]
    /\ UNCHANGED <<manager, send, closed, reader, authUser, push, heard, authed,
                   received>>

\* The socket is broken or closed, or the 10 s deadline passed: deferred Close.
WriteFail(c) ==
    /\ writer[c] = "writing"
    /\ closed' = [closed EXCEPT ![c] = TRUE]
    /\ holding' = [holding EXCEPT ![c] = None]
    /\ writer' = [writer EXCEPT ![c] = "done"]
    /\ UNCHANGED <<manager, send, reader, authUser, push, heard, authed,
                   received>>

\* case <-c.ctx.Done()
PumpStop(c) ==
    /\ writer[c] = "idle"
    /\ closed[c]
    /\ writer' = [writer EXCEPT ![c] = "done"]
    /\ UNCHANGED <<manager, send, closed, reader, authUser, holding, push,
                   heard, authed, received>>

------------------------------------------------------------------------------
(* Core.Push and ConnManager.PushToRoom *)

\* Mutant: every connection gets the push.
EveryConn(u) == conns

Members(u) == rooms[u]

\* The members of the room, copied under the read lock.
Snapshot(q) ==
    /\ pusher[q] = "idle"
    /\ \E u \in Users :
         /\ target' = [target EXCEPT ![q] = u]
         /\ todo' = [todo EXCEPT ![q] = Members(u)]
    /\ pusher' = [pusher EXCEPT ![q] = "check"]
    /\ UNCHANGED <<manager, send, closed, reader, authUser, writer, holding,
                   cur, acked, heard, authed, received>>

\* Mutant: the connection stays in the list.
Revisit(q, c) == todo[q]

Rest(q, c) == todo[q] \ {c}

\* Write reads the closed flag of the next connection under closedMu ...
CheckClosed(q) ==
    /\ pusher[q] = "check"
    /\ \E c \in todo[q] :
         /\ todo' = [todo EXCEPT ![q] = Rest(q, c)]
         /\ \/ closed[c] /\ UNCHANGED <<pusher, cur>>
            \/ /\ ~closed[c]
               /\ cur' = [cur EXCEPT ![q] = c]
               /\ pusher' = [pusher EXCEPT ![q] = "enqueue"]
    /\ UNCHANGED <<manager, send, closed, reader, authUser, writer, holding,
                   target, acked, heard, authed, received>>

\* On with the next connection of the snapshot.
NextConn(q) ==
    /\ cur' = [cur EXCEPT ![q] = None]
    /\ pusher' = [pusher EXCEPT ![q] = "check"]

\* Mutant: the push retries until there is room.
RetryFull(q) == Full(cur[q]) /\ UNCHANGED <<send, acked, cur, pusher>>

\* default: return ErrSendFull
DropFull(q) == Full(cur[q]) /\ UNCHANGED <<send, acked>> /\ NextConn(q)

\* ... and sends without blocking, on a connection that may be closed by now.
TrySend(q) ==
    /\ pusher[q] = "enqueue"
    /\ \/ /\ ~Full(cur[q])
          /\ Enqueue(cur[q], q)
          /\ acked' = [acked EXCEPT ![q] = @ \cup {cur[q]}]
          /\ NextConn(q)
       \/ DropFull(q)
    /\ UNCHANGED <<manager, closed, reader, authUser, writer, holding, target,
                   todo, heard, authed, received>>

\* Every connection of the snapshot was tried: delivered is returned.
Return(q) ==
    /\ pusher[q] = "check"
    /\ todo[q] = {}
    /\ pusher' = [pusher EXCEPT ![q] = "done"]
    /\ UNCHANGED <<manager, send, closed, reader, authUser, writer, holding,
                   target, todo, cur, acked, heard, authed, received>>

------------------------------------------------------------------------------

ReaderStep(c) ==
    \/ ReadHeartbeat(c) \/ ReadBadAuth(c) \/ ReadAuth(c) \/ ReadOther(c)
    \/ Bind(c) \/ Reply(c) \/ ReadError(c) \/ Pop(c)

WriterStep(c) == Take(c) \/ WriteOk(c) \/ WriteFail(c) \/ PumpStop(c)

PushStep(q) == CheckClosed(q) \/ TrySend(q) \/ Return(q)

Delivered(q) == Cardinality(acked[q])

\* All connections have ended and all pushes returned.
Quiet ==
    /\ \A c \in Conns : reader[c] = "gone" /\ writer[c] = "done"
    /\ \A q \in Pushes : pusher[q] = "done"
    /\ UNCHANGED vars

Next ==
    \/ \E c \in Conns : Accept(c) \/ ReaderStep(c) \/ WriterStep(c)
    \/ \E q \in Pushes : Snapshot(q) \/ PushStep(q)
    \/ Quiet

\* Goroutines that can run are run.  A client need never send or leave, but
\* ReadMessage returns once the socket is closed, and a write ends by its
\* deadline.
Fairness ==
    /\ \A c \in Conns : /\ WF_vars(Bind(c) \/ Reply(c) \/ Pop(c))
                        /\ WF_vars(closed[c] /\ ReadError(c))
                        /\ WF_vars(WriterStep(c))
    /\ \A q \in Pushes : WF_vars(PushStep(q))

Spec == Init /\ [][Next]_vars /\ Fairness

------------------------------------------------------------------------------
(* Properties *)

TypeOK ==
    /\ conns \subseteq Conns
    /\ rooms \in [Users -> SUBSET Conns]
    /\ connRoom \in [Conns -> Users \cup {None}]
    /\ send \in [Conns -> Seq(Frames)]
    /\ closed \in [Conns -> BOOLEAN]
    /\ reader \in [Conns -> ReaderPCs]
    /\ authUser \in [Conns -> Users \cup {None}]
    /\ writer \in [Conns -> WriterPCs]
    /\ holding \in [Conns -> Frames \cup {None}]
    /\ pusher \in [Pushes -> PusherPCs]
    /\ target \in [Pushes -> Users \cup {None}]
    /\ todo \in [Pushes -> SUBSET Conns]
    /\ cur \in [Pushes -> Conns \cup {None}]
    /\ acked \in [Pushes -> SUBSET Conns]
    /\ heard \in [Conns -> Nat]
    /\ authed \in [Conns -> SUBSET Users]
    /\ received \in [Conns -> Seq(Frames)]

(* A connection that is gone is in no room, so RoomOnline and PushToRoom stop *)
(* counting it, also when it was bound after the writer had closed it: this   *)
(* rests on Pop running after the last Bind of the same goroutine.  Only a    *)
(* connection that authenticated as somebody else too is left in a room.      *)
NoGhost ==
    \A c \in Conns, u \in Users :
        (reader[c] = "gone" /\ c \in rooms[u]) => \E v \in authed[c] : v # u

\* The frames on their way to, or seen by, the client of a connection.
Reaching(c) == Range(send[c]) \cup {holding[c]} \cup Range(received[c])

(* A push for a user reaches only connections whose client has presented a    *)
(* valid token of that user, whatever happens between the snapshot of the     *)
(* room and the write.                                                        *)
PushIsolation ==
    \A c \in Conns, q \in Pushes :
        q \in Reaching(c) => target[q] \in authed[c] /\ target[q] \in Tokens[c]

\* Frame f occurs at most once in s.
AtMostOnce(s, f) == \A i, j \in DOMAIN s : s[i] = f /\ s[j] = f => i = j

\* Frame f is in one stage only: sent, being written, or received.
OneStage(c, f) ==
    /\ ~(f \in Range(send[c]) /\ f \in Range(received[c]))
    /\ holding[c] = f => f \notin Range(send[c]) \cup Range(received[c])

(* The delivered count of PushUser covers every connection whose client saw   *)
(* the message or will see it, and no client sees a message twice.            *)
DeliveredCovers ==
    \A c \in Conns, q \in Pushes :
        /\ q \in Reaching(c) => c \in acked[q]
        /\ AtMostOnce(send[c], q) /\ AtMostOnce(received[c], q) /\ OneStage(c, q)

(* Whichever goroutine closes a connection, both end and the connection       *)
(* leaves the manager: nothing leaks.                                         *)
CloseCleansUp ==
    \A c \in Conns :
        closed[c] ~> (writer[c] = "done" /\ reader[c] = "gone" /\ c \notin conns)

(* PushToRoom returns however full the buffers of the room are, and whichever *)
(* members stall or die meanwhile.                                            *)
PushReturns == \A q \in Pushes : pusher[q] # "idle" ~> pusher[q] = "done"
=============================================================================
