SPECIFICATION FairSpec
CONSTANTS
    NeedReturn = {"calc", "shell"}
    NoReturn = {"test"}
    MaxMsg = 2
    Threads = {t1, t2}
    MaxCalls = 2
INVARIANTS NotifiedReceives OwnReply 
PROPERTY CallReturns
