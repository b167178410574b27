SPECIFICATION Spec
CONSTANTS
    Store = {"d", "r", "s"}
    Tree = {"d", "r"}
    Disk = "d"
    Bucket = "s"
    Slash = "/"
    Conflicts = "c"
    Dots = ".."
    PageSize = 2
    Setups <- MCSetups
    Commands <- MCCommands
    MaxFaults = 2
    MaxEdits = 2
INVARIANTS
    TypeOK
    RmRemoves
    CpCopies
    PlanSparesSources
PROPERTIES
    RemovesAreNamed
