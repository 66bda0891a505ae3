\* A statement of the ranking cron or of a handler fails.
SPECIFICATION Spec
CONSTANTS
    Users = {u1, u2}
    Posts <- TwoPosts
    Workers = {w1}
    Keep = 1
    Threshold = 2
    MaxTime = 0
    MaxFollows = 0
    MaxFaults <- QueryFault
    None = None
INVARIANT FailuresStayLocal
