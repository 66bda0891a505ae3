\* Serial users on a warm cache; SQL fails, a counter expires, one post id is malformed.
SPECIFICATION Spec
CONSTANTS
    Users = {u1, u2}
    Posts = {p1, p2}
    Uuids = {p1}
    Reqs = {r1, r2, r3}
    Ops <- WritesAndCount
    SerialUsers = TRUE
    WarmCounters = TRUE
    WarmSets = TRUE
    MaxFaults <- CallsFail
SYMMETRY Symmetry
INVARIANT CountExact
INVARIANT RowsFollowSet
