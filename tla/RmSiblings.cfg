SPECIFICATION Spec
CONSTANTS
    Store = {"d", "r", "s"}
    Tree = {"d", "r"}
    Disk = "d"
    Bucket = "s"
    Slash = "/"
    Conflicts = "c"
    Dots = ".."
    PageSize = 2
    Setups <- MCSetups
    Commands <- RmOfOne
    MaxFaults = 0
    MaxEdits = 0
PROPERTIES
    RmStaysInside
