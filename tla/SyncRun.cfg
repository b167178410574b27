SPECIFICATION Spec
CONSTANTS
    NumPaths = 2
    NumWorkers = 2
    NumGens = 1
    MaxSize = 2
    Kinds <- Alike
    Page = 1
    Threshold = 1
    Options <- RunOptions
    Absent = Absent
    SrcTimes = {0, 2}
    StartClock = 2
    MaxClock = 2
    MaxRuns = 1
    MaxEdits = 1
    MaxFaults = 1
    MaxCancels = 1
INVARIANTS
    TypeOK
    SettledAgree
    SyncInv
    NilMeansAllSettled
PROPERTIES
    ListedIsBackedUp
    DeletesOnlyOrphans
    DryRunIsPure
