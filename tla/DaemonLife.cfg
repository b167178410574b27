SPECIFICATION Spec
CONSTANTS
    Daemons = 2
    Stop = {c1}
    Status = {c2}
    Addr = {a1, a2}
    Default = a1
    None = None
    Empty = Empty
    MaxFailures = 1
INVARIANTS
    TypeOK
    StrangersAreSpared
    OrderlyIsNamed
    TokenIsShared
    OrderlyStartServes
PROPERTIES
    OrderlyStopStops
    OrderlyStatus
