CONSTANTS
    Byte = {0, 1}
    Cap = 3
    MaxReq = 4
SPECIFICATION Spec
INVARIANT TypeOK
PROPERTY ImplementsFifo
