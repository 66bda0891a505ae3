\* A liked_by set that expires while its rows remain.
SPECIFICATION Spec
CONSTANTS
    Users = {u1}
    Posts = {p1}
    Uuids = {p1}
    Reqs = {r1, r2}
    Ops <- WritesAndIsLiked
    SerialUsers = TRUE
    WarmCounters = TRUE
    WarmSets = TRUE
    MaxFaults <- SetExpiry
PROPERTY IsLikedFallsBack
