SPECIFICATION FairSpec
CONSTANTS
    KernelRoom = 2
    SndBuf = 1
    Lens = {1, 3}
    MaxMsgs = 2
PROPERTY
    BufferedIsSent
CHECK_DEADLOCK FALSE
