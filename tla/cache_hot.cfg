\* Posts come and go, keys expire, a ranking run dies; requests and runs are scheduled fairly.
SPECIFICATION Spec
CONSTANTS
    Posts = {p1, p2}
    Reqs = {r1, r2, r3}
    Workers = {w1}
    TopN = 1
    MaxCrashes = 1
INVARIANTS TypeOK HotIsOneRanking
PROPERTY DeletedFades
