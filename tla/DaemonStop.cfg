SPECIFICATION Spec
CONSTANTS
    Daemons = 2
    Stop = {c1}
    Status = {}
    Addr = {a1}
    Default = a1
    None = None
    Empty = Empty
    MaxFailures = 0
PROPERTY NothingToStop
