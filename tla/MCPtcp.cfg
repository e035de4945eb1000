SPECIFICATION Spec
CONSTANTS
    Plans <- Streams
    ConnLen = 1
    MinMss = 1
    Mss = 2
    SndBuf = 2
    RcvBuf = 2
    XmitEstablished = 2
    XmitOther = 2
    SeqSpace = 1024
    MaxNet = 2
    MaxSegs = 2
INVARIANTS AssertionsHold StreamPrefix AckedReceived WindowKept TimerArmed WritableWakes
CHECK_DEADLOCK FALSE
