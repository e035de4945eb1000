SPECIFICATION FairSpec
CONSTANTS
    Writers = {"w1"}
    Readers = {"r1", "r2"}
    Branches = {"a", "b"}
    BranchOf <- EachItsBranch
    NoBranch = "none"
    Modes = {"FLUSH"}
    Depths = {1, 2}
    MaxDepth = 2
    MaxItems = 2
PROPERTIES  WaiterServed
