SPECIFICATION Spec
CONSTANTS
    NumPaths = 1
    NumWorkers = 1
    NumGens = 1
    MaxSize = 1
    Kinds <- LocalOnly
    Page = 1
    Threshold = 1
    Options <- PlainOptions
    Absent = Absent
    SrcTimes = {0}
    StartClock = 0
    MaxClock = 2
    MaxRuns = 2
    MaxEdits = 0
    MaxFaults = 0
    MaxCancels = 0
INVARIANT ResyncIsQuiet
