SPECIFICATION Spec
CONSTANTS
    Keys = 2
    Writers = 2
    Jobs <- SomeJobs
    Requests <- SomeRequests
    Absent = Absent
    MaxAttempts = 2
    MaxFaults = 2
    MaxCrashes = 1
INVARIANTS
    TypeOK
    TempsAreCleared
    WalkIsFaithful
    GetIsWhole
PROPERTIES
    ObjectStoreSpec
    NoOverwriteIsChecked
