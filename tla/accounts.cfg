\* Two people, two names, accounts that come and go, calls that are abandoned and run late.
SPECIFICATION Spec
CONSTANTS
    Persons = {p1, p2}
    Names = {n1, n2}
    Ids <- ThreeIds
    Posts = {d1}
    MaxCalls = 4
    MaxAway = 1
    None = None
SYMMETRY Symmetry
INVARIANTS TypeOK FollowsAreUsers ActsAsOwn AnswerHolds
CHECK_DEADLOCK FALSE
