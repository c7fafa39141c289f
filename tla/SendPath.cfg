SPECIFICATION FairSpec
CONSTANTS
    KernelRoom = 2
    SndBuf = 1
    Lens = {1, 3}
    MaxMsgs = 4
INVARIANTS
    SendInv
    OkIsKept
PROPERTY
    ArmedIsSent
CHECK_DEADLOCK FALSE
