SPECIFICATION ThreadsSpec
CONSTANTS
    QueueLen = 10
    BlockHdr = 1
    CtxLen = 1
    BufLen = 2
    MsgLens = {1, 2, 3}
    MaxMsgs = 3
INVARIANT
    HandlerGetsWholeMessage
CHECK_DEADLOCK FALSE
