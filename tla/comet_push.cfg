\* Clients that may authenticate twice, as anybody; a push; full buffers.
SPECIFICATION Spec
CONSTANTS
    u1 = u1
    u2 = u2
    Conns = {c1, c2}
    Users = {u1, u2}
    Pushes = {q1}
    Tokens <- AnyUser
    SendBuf = 1
    MaxFrames = 2
    None = None
SYMMETRY Symmetry
INVARIANT TypeOK
INVARIANT NoGhost
INVARIANT PushIsolation
INVARIANT DeliveredCovers
