\* Every RPC, counters that start cold, keys that expire, Redis that fails, a cancelled request; goroutines are scheduled fairly.
SPECIFICATION Spec
CONSTANTS
    Users = {u1}
    Posts = {p1, p2}
    Uuids = {p1}
    Reqs = {r1, r2}
    Ops <- AllOps
    SerialUsers = FALSE
    WarmCounters = FALSE
    WarmSets = TRUE
    MaxFaults <- RedisFaults
INVARIANT TypeOK
INVARIANT NegativeIsOwed
PROPERTY NegativeIsTransient
