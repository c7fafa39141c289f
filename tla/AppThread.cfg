SPECIFICATION FairThreadsSpec
CONSTANTS
    QueueLen = 10
    BlockHdr = 1
    CtxLen = 1
    BufLen = 2
    MsgLens = {1, 2, 3}
    MaxMsgs = 4
INVARIANT
    AppInv
PROPERTIES
    DispatchedIsTaken
    JoinReturns
CHECK_DEADLOCK FALSE
