\* A device dials, with a good token or a bad one, while two pushes race; either end may close at any time; goroutines are scheduled fairly.
SPECIFICATION CSpec
CONSTANTS
    u1 = u1
    Conns = {c1}
    Users = {u1}
    Pushes = {q1, q2}
    Tokens <- OneUser
    SendBuf = 1
    MaxFrames = 2
    None = None
INVARIANTS CTypeOK OpenIsBound DialVerdict NoLossWhileOpen
PROPERTIES CloseCleansUp PushReturns PushHeard GoneIsForgotten
