\* More posts than an inbox keeps, every fault, and users who follow and unfollow; the consumer threads are scheduled fairly.
SPECIFICATION Spec
CONSTANTS
    Users = {u1}
    Posts <- TwoPosts
    Workers = {w1}
    Keep = 1
    Threshold = 2
    MaxTime = 1
    MaxFollows = 1
    MaxFaults <- EveryFault
    None = None
INVARIANTS TypeOK InboxIsNewest CommittedReached
PROPERTIES KeepsPromise FansReached
