----------------------------- MODULE CometClient -----------------------------
(***************************************************************************)
(* The push server of module Comet together with its clients, the library    *)
(* pkg/comet/client/conn.go: the handshake of Dial, ReadLoop with the         *)
(* callback of OnMessage, Send with WritePump, Close.                         *)
(*                                                                           *)
(* A connection carries two streams.  The client writes up[c], of which the   *)
(* server has read heard[c] frames; the server writes received[c], of which   *)
(* the client has read got[c].  Either end may close at any time, and the     *)
(* other learns of it from its next read.                                     *)
(***************************************************************************)
EXTENDS Comet

VARIABLES
    state,          \* where the client is
    up,             \* history: the frames it wrote
    got,            \* how many frames of received[c] it has read
    sender,         \* where its goroutine that calls Send is
    queue           \* frames in its send channel

client == <<state, up, got, sender, queue>>
allvars == <<vars, client>>

Auth == "0x0002 valid"
BadAuth == "0x0002 invalid"
Message == "0x0003"

\* Dial returns a connection (open) or an error: refused by the first frame, or
\* failed.
ClientStates == {"off", "wait", "open", "refused", "failed", "closed"}

CInit ==
    /\ Init
    /\ state = [c \in Conns |-> "off"]
    /\ up = [c \in Conns |-> <<>>]
    /\ got = [c \in Conns |-> 0]
    /\ sender = [c \in Conns |-> "idle"]
    /\ queue = [c \in Conns |-> <<>>]

Enter(c, s) == state' = [state EXCEPT ![c] = s]

------------------------------------------------------------------------------
(* Dial *)

\* The connection is made and the authentication frame written, or that fails.
Dial(c) ==
    /\ state[c] = "off"
    /\ \/ /\ \E f \in {Auth, BadAuth} : up' = [up EXCEPT ![c] = <<f>>]
          /\ Enter(c, "wait")
       \/ Enter(c, "failed") /\ UNCHANGED up
    /\ UNCHANGED <<vars, got, sender, queue>>

Unread(c) == got[c] < Len(received[c])

NextFrame(c) == received[c][got[c] + 1]

ReadFrame(c) == Unread(c) /\ got' = [got EXCEPT ![c] = @ + 1]

\* Mutant: whatever arrives first is taken for a success.
AnyFrame(f) == "open"

\* {0,1} is success, all else ErrAuthFailed.
Verdict(f) == IF f = AuthOk THEN "open" ELSE "refused"

\* The first frame decides.
DialReply(c) ==
    /\ state[c] = "wait"
    /\ ReadFrame(c)
    /\ Enter(c, Verdict(NextFrame(c)))
    /\ UNCHANGED <<vars, up, sender, queue>>

\* No frame within five seconds, or the connection breaks.
DialFails(c) ==
    /\ state[c] = "wait"
    /\ Enter(c, "failed")
    /\ UNCHANGED <<vars, up, got, sender, queue>>

------------------------------------------------------------------------------
(* An open connection *)

\* ReadLoop: a push goes to the callback, any other frame changes nothing.
Hear(c) ==
    /\ state[c] = "open"
    /\ ReadFrame(c)
    /\ UNCHANGED <<vars, state, up, sender, queue>>

\* Close, a read error or 120 s of silence in ReadLoop, a write error in WritePump.
Hangup(c) ==
    /\ state[c] = "open"
    /\ Enter(c, "closed")
    /\ UNCHANGED <<vars, up, got, sender, queue>>

\* Send tests the closed flag ...
SendTests(c) ==
    /\ sender[c] = "idle"
    /\ state[c] = "open"
    /\ Len(up[c]) + Len(queue[c]) < MaxFrames
    /\ sender' = [sender EXCEPT ![c] = "queue"]
    /\ UNCHANGED <<vars, state, up, got, queue>>

\* ... and queues the frame, unless the channel is full.
SendQueues(c) ==
    /\ sender[c] = "queue"
    /\ sender' = [sender EXCEPT ![c] = "idle"]
    /\ \/ queue' = [queue EXCEPT ![c] = Append(@, Message)]
       \/ Len(queue[c]) > 0 /\ UNCHANGED queue
    /\ UNCHANGED <<vars, state, up, got>>

\* WritePump writes the next frame.
Pump(c) ==
    /\ state[c] = "open"
    /\ queue[c] # <<>>
    /\ up' = [up EXCEPT ![c] = Append(@, Head(queue[c]))]
    /\ queue' = [queue EXCEPT ![c] = Tail(@)]
    /\ UNCHANGED <<vars, state, got, sender>>

ClientStep(c) ==
    \/ Dial(c) \/ DialReply(c) \/ DialFails(c)
    \/ Hear(c) \/ Hangup(c)
    \/ SendTests(c) \/ SendQueues(c) \/ Pump(c)

------------------------------------------------------------------------------
(* The server, with what its clients give it to read *)

\* The frame the server reads next.
Incoming(c) == up[c][heard[c] + 1]

ServerReads(c) ==
    /\ heard[c] < Len(up[c])
    /\ \/ Incoming(c) = Auth /\ ReadAuth(c)
       \/ Incoming(c) = BadAuth /\ ReadBadAuth(c)
       \/ Incoming(c) = Message /\ ReadOther(c)

Gone(c) == state[c] \in {"refused", "failed", "closed"}

ServerStep(c) ==
    /\ \/ state[c] # "off" /\ Accept(c)
       \/ ServerReads(c) \/ Bind(c) \/ Reply(c) \/ ReadError(c) \/ Pop(c)
       \/ WriterStep(c)
    /\ UNCHANGED client

\* Every client has come and gone, and all pushes have returned.
AllGone == Quiet /\ UNCHANGED client

CNext ==
    \/ \E c \in Conns : ClientStep(c) \/ ServerStep(c)
    \/ \E q \in Pushes : (Snapshot(q) \/ PushStep(q)) /\ UNCHANGED client
    \/ AllGone

\* The goroutines of both ends: the server's reader, which reads what has arrived
\* and then the error of a closed connection; its writer; the client's reader, in
\* Dial for five seconds, then in ReadLoop.
Reader(c) ==
    \/ ServerReads(c) \/ Bind(c) \/ Reply(c) \/ Pop(c)
    \/ (closed[c] \/ Gone(c)) /\ ReadError(c)

Listener(c) == DialReply(c) \/ DialFails(c) \/ Hear(c)

\* Goroutines that can run are run.  Nobody need dial, send or hang up.
CFairness ==
    /\ \A c \in Conns : /\ WF_allvars(Reader(c) /\ UNCHANGED client)
                        /\ WF_allvars(WriterStep(c) /\ UNCHANGED client)
                        /\ WF_allvars(Listener(c))
    /\ \A q \in Pushes : WF_allvars(PushStep(q) /\ UNCHANGED client)

CSpec == CInit /\ [][CNext]_allvars /\ CFairness

------------------------------------------------------------------------------
(* Properties *)

\* Values keep their types, and neither end reads what was not written.
CTypeOK ==
    /\ TypeOK
    /\ state \in [Conns -> ClientStates]
    /\ up \in [Conns -> Seq({Auth, BadAuth, Message})]
    /\ queue \in [Conns -> Seq({Message})]
    /\ sender \in [Conns -> {"idle", "queue"}]
    /\ \A c \in Conns : got[c] \in 0..Len(received[c]) /\ heard[c] <= Len(up[c])

\* A connection that Dial returned is already in the room of its token's user, and
\* is there until the server closes it: whoever dials may count on the next push
\* (services/notify/e2e/main.go dials, then sends).
OpenIsBound ==
    \A c \in Conns :
      (state[c] = "open" /\ reader[c] # "gone") =>
         \E u \in Tokens[c] : connRoom[c] = u /\ c \in rooms[u]

\* Dial refuses a valid token in one case only: a push overtook the reply
\* (server.go 145: the connection is in its room before the reply is queued).  It
\* never accepts an invalid one.
DialVerdict ==
    \A c \in Conns :
      /\ state[c] \in {"open", "closed"} => up[c][1] = Auth
      /\ state[c] = "refused" => up[c][1] = BadAuth \/ received[c][1] \in Pushes

\* The pushes a client has been told of by its callback, and those on their way.
Told(c) == {received[c][i] : i \in 1..got[c]} \cap Pushes
OnTheWay(c) == Range(send[c]) \cup {holding[c]} \cup
                 {received[c][i] : i \in (got[c] + 1)..Len(received[c])}

\* Nothing that PushToRoom counted is lost between the channel, the writer and
\* the socket while both ends of a connection are open.
NoLossWhileOpen ==
    \A c \in Conns, q \in Pushes :
      (c \in acked[q] /\ state[c] = "open" /\ ~closed[c]) => q \in Told(c) \cup OnTheWay(c)

\* A push that was counted reaches the callback, unless one of the ends closes.
PushHeard ==
    \A c \in Conns, q \in Pushes :
      c \in acked[q] ~> (q \in Told(c) \/ closed[c] \/ Gone(c))

\* A client that hung up, was refused or gave up waiting is forgotten: it leaves
\* the manager and its room, and its goroutines end.
GoneIsForgotten ==
    \A c \in Conns :
      (Gone(c) /\ reader[c] # "none") ~>
        (reader[c] = "gone" /\ writer[c] = "done" /\ c \notin conns
          /\ \A u \in Users : c \notin rooms[u])
=============================================================================
