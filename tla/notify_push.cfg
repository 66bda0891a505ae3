\* Concurrent callers, two users that come, list, go and come back, each kind of call fails once.
SPECIFICATION Spec
CONSTANTS
    Users = {u1, u2}
    Pushes = {n1, n2}
    PageSize = 1
    MaxConnects = 2
    MaxFaults <- EveryFault
SYMMETRY Symmetry
INVARIANTS TypeOK WalkComplete SteadySees DeliveredIsStored
