SPECIFICATION Spec
CONSTANTS
    Writers = {w1, w2}
    Readers = {"r1", "r2"}
    Branches = {"a"}
    BranchOf <- OneOnBranch
    NoBranch = "none"
    Modes = {"FLUSH", "RING"}
    Depths = {1}
    MaxDepth = 1
    MaxItems = 3
SYMMETRY Symmetry
INVARIANTS OneOwner NothingLost DepthBound ReaderOrder
