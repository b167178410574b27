SPECIFICATION FairSpec
CONSTANTS
    NumPaths = 2
    NumWorkers = 2
    NumGens = 1
    MaxSize = 2
    Kinds <- IntoBucket
    Page = 1
    Threshold = 1
    Options <- AgainOptions
    Absent = Absent
    SrcTimes = {0}
    StartClock = 2
    MaxClock = 3
    MaxRuns = 2
    MaxEdits = 0
    MaxFaults = 1
    MaxCancels = 0
INVARIANTS
    DryRunPredicts
    
PROPERTIES
    RunReturns
