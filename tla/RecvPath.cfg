SPECIFICATION FairSpec
CONSTANTS
    RcvBuf = 1
    Expand = 2
    Lens = {1, 3}
    MaxMsgs = 3
INVARIANTS
    RecvInv
    EndIsTold
PROPERTY
    MessageHandled
CHECK_DEADLOCK FALSE
