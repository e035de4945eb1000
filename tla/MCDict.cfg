SPECIFICATION Spec
CONSTANTS
    Keys <- MCKeys
    Hash <- MCHash
    Vals = {v, w}
    NULL = NULL
    DUMMY = DUMMY
    MinSize = 4
    BigSize = 16
    Width = 6
    Missing = TRUE
    MaxBelow = 2
    MaxLive = 4
    MaxAdds = 4
SYMMETRY Symmetry
INVARIANT KeyStoredOnce
PROPERTY ImplementsMap
