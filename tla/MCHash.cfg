SPECIFICATION Spec
CONSTANTS
    Keys <- MCKeys
    HashOf <- MCHashOf
    Vals = {v, w}
    NULL = NULL
    Bucket = 6
PROPERTY ImplementsMap
