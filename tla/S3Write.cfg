SPECIFICATION FairSpec
CONSTANTS
    Writer = {w1, w2}
    Jobs <- MixedJobs
    PartSize = 2
    MaxRetries = 1
    Absent = Absent
    Zero = Zero
    Other = Other
    MaxCancels = 1
    MaxCrashes = 1
INVARIANTS
    TypeOK
    AckedIsStored
    UploadsAreCleared
PROPERTIES
    ObjectStoreSpec
    WriteReturns
