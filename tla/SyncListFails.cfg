SPECIFICATION Spec
CONSTANTS
    NumPaths = 1
    NumWorkers = 1
    NumGens = 1
    MaxSize = 2
    Kinds <- LocalOnly
    Page = 1
    Threshold = 1
    Options <- PlainOptions
    Absent = Absent
    SrcTimes = {0}
    StartClock = 0
    MaxClock = 0
    MaxRuns = 2
    MaxEdits = 0
    MaxFaults = 1
    MaxCancels = 0
PROPERTY DisplacedIsBackedUp
