SPECIFICATION Spec
CONSTANTS
    Request = {r1, r2, r3}
    NumNames = 2
    Profile = {p1, p2, bad}
    Unusable = {bad}
    Nothing = Nothing
    MaxRequests = 3
    MaxCli = 1
    MaxFaults = 1
    MaxRestarts = 1
SYMMETRY Interchangeable
INVARIANTS
    TypeOK
    CacheAgrees
    ListIsFaithful
